---------------------------- MODULE Spec2Model ----------------------------
(***************************************************************************)
(* A model of tugboat: the PullRequest wrapper, the entry points and the   *)
(* shared resolver _from_repos (tugboat/pulls.py), and PullSummary,        *)
(* RepoSummary, format_age, the sort keys, report() and its processor      *)
(* _process_report (tugboat/reports.py).                                   *)
(*                                                                         *)
(* Python values are modelled as follows.  None, True and False are the    *)
(* strings "None", "True" and "False" (a cached mergeable flag holds any   *)
(* of the three).  An object that the program mutates (a PullRequest       *)
(* wrapper) lives in a heap, the sequence `wrappers', and is referred to   *)
(* by its index; a reference that is None is 0.  A remote record's         *)
(* mergeable attribute, which the hosting service may recompute at any     *)
(* time, is pr_mergeable[id].  Timestamps and durations are integers.      *)
(***************************************************************************)
EXTENDS Integers, Sequences, FiniteSets, TLC

VARIABLES
    \* --- the hosting service (external) ---
    hub,            \* repository full name -> the raw records get_pulls() lists
    pr_mergeable,   \* raw record id -> the record's current mergeable value
    pr_reads,       \* raw record id -> how often its mergeable was read
    \* --- the heap of PullRequest wrappers ---
    wrappers,       \* sequence of [_repo, _pr, _mergeable]
    wlog,           \* operations performed on wrapper 1 (SpecWrapper)
    \* --- the frame of _from_repos ---
    r_pc, r_repos, r_idx, r_pulls, r_repo_pulls, r_cb,
    events,         \* callback invocations and get_pulls() calls, in order
    \* --- the frame of report() ---
    pc, repos, repo_callback, sort_by, start, spec_i, pr_summary, pulls,
    repos_d,        \* the dict of RepoSummary objects (report() rebinds `repos')
    pull_i,         \* position of the per-pull loop
    out,            \* the output stream: the print calls made on it, in order
    ages,           \* the calls of format_age, in order
    collected,      \* history: `pulls' as the collection loop left it
    clock,          \* what datetime.datetime.utcnow() returns next
    nows,           \* history: the calls of utcnow() that report() made
    trace,          \* history: what report() and the entry points did, in order
    \* --- the frame of _process_report ---
    p_pc, args, close,
    streams,        \* stream -> how often it was opened and closed
    \* --- RepoSummary objects on their own ---
    summaries,      \* the heap of RepoSummary objects
    slog,           \* the accumulations made on them, in order
    \* --- the process ---
    err             \* sys.stderr: the print calls made on it, in order

wrapVars == <<wrappers, wlog>>
hubVars  == <<hub, pr_mergeable, pr_reads>>
resVars  == <<r_pc, r_repos, r_idx, r_pulls, r_repo_pulls, r_cb, events>>
repVars  == <<pc, repos, repo_callback, sort_by, start, spec_i, pr_summary,
             pulls, repos_d, pull_i, out, ages, collected, clock, nows,
             trace>>
procVars == <<p_pc, args, close, streams>>
sumVars  == <<summaries, slog>>
vars     == <<hubVars, wrapVars, resVars, repVars, procVars, sumVars, err>>

-----------------------------------------------------------------------------
(* Bounds of the model. *)

\* SpecWrapper: the number of operations (reads, invalidations) on the wrapper.
MaxOps == 4

\* SpecResolve: the length of the repository sequence given to _from_repos,
\* and the number of raw records a repository lists.
MaxRepos == 2
MaxListing == 2

\* Timestamps range over 1..MaxTime.
MaxTime == 2

\* SpecSummary: the number of add_pull calls.
MaxAdds == 4

\* SpecAge: the number of format_age calls.
MaxCalls == 2

\* SpecAttr: the number of attribute reads on the wrapper.
MaxReads == 2

\* Spec: the number of (kind, name) specifications given to report(), and
\* the time that may pass between its two readings of the clock.
MaxSpecs == 2
MaxElapsed == 1

\* SpecRepoSummary: the number of RepoSummary objects (at most the number of
\* repository names) and of accumulations on them.
MaxSummaries == 2
MaxAccumulations == 3

-----------------------------------------------------------------------------
(* Python values. *)

None == "None"

\* The values a remote record's mergeable attribute can report.
MergeableValues == {"True", "False", None}

\* Python truthiness of such a value.
Truthy(v) == v = "True"

\* A None reference to a heap object.
NoPull == 0

\* All sequences over S of length at most n.
SeqsUpTo(S, n) == UNION {[1..k -> S] : k \in 0..n}

-----------------------------------------------------------------------------
(* The raw records of the hosting service. *)

RepoNames == <<"repo1", "repo2", "repo3">>

\* A github.PullRequest.PullRequest: its identity is (full name, number).
\* user.name is None for the first record of a repository.
RawPull(name, number, created, updated) ==
    [id |-> <<name, number>>, number |-> number,
     created_at |-> created, updated_at |-> updated,
     user_name |-> IF number = 1 THEN None ELSE "spam"]

-----------------------------------------------------------------------------
(* tugboat/pulls.py: the PullRequest wrapper. *)

PullRequestInitEager(repo, pr) ==
    [_repo |-> repo, _pr |-> pr, _mergeable |-> pr_mergeable[pr.id]]

\* PullRequest.__init__
PullRequestInit(repo, pr) == [_repo |-> repo, _pr |-> pr, _mergeable |-> None]

\* PullRequest.mergeable (getter) on wrapper w of heap h, the remote values
\* being u and the read counters n: the value returned, the heap and the
\* counters afterwards.
MergeableGet(h, u, n, w) ==
    IF h[w]._mergeable = None
    THEN LET v == u[h[w]._pr.id] IN
         [value |-> v,
          heap  |-> [h EXCEPT ![w]._mergeable = v],
          reads |-> [n EXCEPT ![h[w]._pr.id] = @ + 1]]
    ELSE [value |-> h[w]._mergeable, heap |-> h, reads |-> n]

MergeableDeleteKeeps(h, u, n, w) == [heap |-> h, reads |-> n]

\* PullRequest.mergeable (deleter)
MergeableDelete(h, u, n, w) ==
    [heap |-> [h EXCEPT ![w]._mergeable = None], reads |-> n]

-----------------------------------------------------------------------------
(* SpecWrapper: one freshly constructed wrapper, read and invalidated in   *)
(* any order while the hosting service changes the record's value.         *)

TheRaw == RawPull("repo1", 1, 1, 1)

\* No RepoSummary object.
InitIdleRepoSummary == summaries = <<>> /\ slog = <<>>

InitIdleResolver ==
    /\ r_pc = "idle" /\ r_repos = <<>> /\ r_idx = 0 /\ r_pulls = <<>>
    /\ r_repo_pulls = <<>> /\ r_cb = None /\ events = <<>>
    /\ err = <<>>

\* No run of _process_report.
InitIdleProcess ==
    /\ p_pc = "idle" /\ args = <<>> /\ close = None /\ streams = <<>>

InitIdleReport ==
    /\ InitIdleProcess
    /\ pc = "idle" /\ repos = <<>> /\ repo_callback = None /\ sort_by = None
    /\ start = 0 /\ spec_i = 0 /\ pr_summary = <<>> /\ pulls = <<>>
    /\ repos_d = <<>> /\ pull_i = 0 /\ out = <<>> /\ ages = <<>>
    /\ collected = <<>> /\ clock = 0 /\ nows = <<>> /\ trace = <<>>

InitWrapper ==
    /\ hub = [n \in {"repo1"} |-> <<TheRaw>>]
    /\ pr_mergeable \in [{TheRaw.id} -> MergeableValues]
    /\ pr_reads = [i \in {TheRaw.id} |-> 0]
    /\ wrappers = <<PullRequestInit("repo1", TheRaw)>>
    /\ wlog = <<>>
    /\ InitIdleRepoSummary
    /\ InitIdleResolver
    /\ InitIdleReport

\* x = wrapper.mergeable
WrapperGet ==
    /\ Len(wlog) < MaxOps
    /\ LET r == MergeableGet(wrappers, pr_mergeable, pr_reads, 1) IN
       /\ wrappers' = r.heap
       /\ pr_reads' = r.reads
       /\ wlog' = Append(wlog, [op |-> "get", value |-> r.value,
                                fetches |-> r.reads[TheRaw.id] - pr_reads[TheRaw.id],
                                remote |-> pr_mergeable[TheRaw.id],
                                cache |-> r.heap[1]._mergeable])
    /\ UNCHANGED <<sumVars, procVars, hub, pr_mergeable, resVars, repVars, err>>

\* del wrapper.mergeable
WrapperDelete ==
    /\ Len(wlog) < MaxOps
    /\ LET r == MergeableDelete(wrappers, pr_mergeable, pr_reads, 1) IN
       /\ wrappers' = r.heap
       /\ pr_reads' = r.reads
       /\ wlog' = Append(wlog, [op |-> "del", value |-> None,
                                fetches |-> r.reads[TheRaw.id] - pr_reads[TheRaw.id],
                                remote |-> pr_mergeable[TheRaw.id],
                                cache |-> r.heap[1]._mergeable])
    /\ UNCHANGED <<sumVars, procVars, hub, pr_mergeable, resVars, repVars, err>>

\* The hosting service recomputes the record's mergeable value.
RemoteChange ==
    /\ \E v \in MergeableValues \ {pr_mergeable[TheRaw.id]} :
          pr_mergeable' = [pr_mergeable EXCEPT ![TheRaw.id] = v]
    /\ UNCHANGED <<sumVars, hub, pr_reads, wrapVars, procVars, resVars, repVars, err>>

NextWrapper == WrapperGet \/ WrapperDelete \/ RemoteChange

SpecWrapper == InitWrapper /\ [][NextWrapper]_vars

\* The reads and invalidations of the log, by position.
Gets == {i \in 1..Len(wlog) : wlog[i].op = "get"}
Dels == {i \in 1..Len(wlog) : wlog[i].op = "del"}

\* C3 (as claimed): with no invalidation so far, any number (>= 1) of reads
\* of wrapper.mergeable fetched the remote value exactly once in total, and
\* every read returned what the first read returned, whatever value
\* ("True", "False" or None) the remote record reports.
C3_FetchedOnceForEveryValue ==
    (Dels = {} /\ Gets # {}) =>
        /\ Cardinality({i \in Gets : wlog[i].fetches > 0}) = 1
        /\ \A i \in Gets : wlog[i].fetches <= 1 /\ wlog[i].value = wlog[1].value

\* What the getter does guarantee: as long as every read so far returned a
\* value other than None, the remote value was fetched once.
FetchedOnceUnlessNone ==
    (Dels = {} /\ Gets # {} /\ \A i \in Gets : wlog[i].value # None) =>
        /\ Cardinality({i \in Gets : wlog[i].fetches > 0}) = 1
        /\ \A i \in Gets : wlog[i].value = wlog[1].value

\* C4: an invalidation leaves the cache unset and fetches nothing; the read
\* that follows an invalidation fetches the remote value exactly once and
\* returns the value the remote record holds at that moment.
C4_InvalidateThenRefetch ==
    /\ \A i \in Dels : wlog[i].cache = None /\ wlog[i].fetches = 0
    /\ \A i \in Gets : (i > 1 /\ wlog[i - 1].op = "del") =>
            wlog[i].fetches = 1 /\ wlog[i].value = wlog[i].remote

\* C4's case: a cached "True" is invalidated and the next read returns the
\* record's new value "False".
C4_Witness ==
    \E i \in Gets :
        /\ i + 2 <= Len(wlog)
        /\ wlog[i].value = "True" /\ wlog[i].cache = "True"
        /\ wlog[i + 1].op = "del"
        /\ wlog[i + 2].op = "get" /\ wlog[i + 2].value = "False"

-----------------------------------------------------------------------------
(* tugboat/pulls.py: reading an attribute of a wrapper.  Python looks the  *)
(* name up on the wrapper first, where it finds the three properties, and  *)
(* calls __getattr__ only for a name it did not find.  What a read gives   *)
(* is a record: how the name was resolved (via), whether a value came back *)
(* or AttributeError was raised (outcome), and the value.                  *)

\* The properties the class PullRequest defines.
Properties == {"repo", "pr", "mergeable"}

\* getattr(raw, name)
RawGetAttr(raw, name) ==
    IF name \in DOMAIN raw
    THEN [via |-> "__getattr__", outcome |-> "value", value |-> raw[name]]
    ELSE [via |-> "__getattr__", outcome |-> "AttributeError", value |-> None]

\* PullRequest.__getattr__(name): return getattr(self._pr, name)
GetAttrCall(h, w, name) == RawGetAttr(h[w]._pr, name)

\* A property's getter, given what the mergeable getter returns.
PropertyGet(h, w, name, mergeable) ==
    [via |-> "property", outcome |-> "value",
     value |-> CASE name = "repo"      -> h[w]._repo
                 [] name = "pr"        -> h[w]._pr
                 [] name = "mergeable" -> mergeable]

ReadAttrForwardsFirst(h, w, name, mergeable) ==
    IF name \in DOMAIN h[w]._pr
    THEN GetAttrCall(h, w, name)
    ELSE IF name \in Properties
    THEN PropertyGet(h, w, name, mergeable)
    ELSE GetAttrCall(h, w, name)

\* wrapper.<name>
ReadAttr(h, w, name, mergeable) ==
    IF name \in Properties
    THEN PropertyGet(h, w, name, mergeable)
    ELSE GetAttrCall(h, w, name)

-----------------------------------------------------------------------------
(* SpecAttr: a raw record that has, besides the attributes of every        *)
(* record, any of the attributes html_url, repo and pr; the construction   *)
(* of a wrapper of it; and up to MaxReads reads of attributes of the       *)
(* wrapper, by any of the names below.                                     *)

\* Attributes a raw record may have or lack, and their values there.
ExtraAttrs ==
    [html_url |-> "https://github/repo1/pull/1",
     repo     |-> [full_name |-> "raw.repo"],
     pr       |-> RawPull("raw.pr", 9, 9, 9)]

\* The record TheRaw with the extra attributes `extras'.
RawWith(extras) ==
    [n \in DOMAIN TheRaw \cup extras |->
        IF n \in extras THEN ExtraAttrs[n] ELSE TheRaw[n]]

\* The names read: the properties, names every record has, names a record
\* may have, and a name no record has.
AttrNames ==
    Properties \cup {"number", "created_at", "html_url", "nosuch"}

InitAttr ==
    /\ \E extras \in SUBSET (DOMAIN ExtraAttrs) :
          hub = [n \in {"repo1"} |-> <<RawWith(extras)>>]
    /\ wrappers = <<>>
    /\ pr_mergeable \in [{TheRaw.id} -> MergeableValues]
    /\ pr_reads = [i \in {TheRaw.id} |-> 0]
    /\ wlog = <<>>
    /\ InitIdleRepoSummary
    /\ InitIdleResolver
    /\ InitIdleReport

\* wrapper = PullRequest(repo, pr)
WrapperConstruct ==
    /\ wrappers = <<>>
    /\ wrappers' = <<PullRequestInit([full_name |-> "repo1"],
                                   hub["repo1"][1])>>
    /\ UNCHANGED <<sumVars, hubVars, wlog, procVars, resVars, repVars, err>>

\* x = wrapper.<name>
WrapperRead ==
    /\ wrappers # <<>>
    /\ Len(wlog) < MaxReads
    /\ \E name \in AttrNames :
          LET m == MergeableGet(wrappers, pr_mergeable, pr_reads, 1) IN
          /\ wlog' = Append(wlog,
                        [op |-> "getattr", name |-> name,
                         result |-> ReadAttr(wrappers, 1, name, m.value)])
          /\ IF name = "mergeable"
             THEN wrappers' = m.heap /\ pr_reads' = m.reads
             ELSE UNCHANGED <<wrappers, pr_reads>>
    /\ UNCHANGED <<sumVars, hub, pr_mergeable, procVars, resVars, repVars, err>>

NextAttr == WrapperConstruct \/ WrapperRead

SpecAttr == InitAttr /\ [][NextAttr]_vars

C20_WitnessForwarded ==
    /\ Len(wlog) = 1 /\ wlog[1].name = "number"
    /\ wlog[1].result = [via |-> "__getattr__", outcome |-> "value",
                         value |-> 1]

\* C23: the construction of a wrapper reads no mergeable value of the raw
\* record and leaves the cache unset, the wrapper holding the two
\* arguments; a read of wrapper.repo or wrapper.pr returns the argument the
\* wrapper was constructed with, reads no mergeable value and leaves the
\* wrapper, its cache included, as it was.
C23_ConstructionAndReadsFrame ==
    [][/\ (wrappers = <<>> /\ wrappers' # <<>>) =>
            /\ pr_reads' = pr_reads
            /\ wrappers' = <<[_repo |-> [full_name |-> "repo1"],
                              _pr |-> hub["repo1"][1], _mergeable |-> None]>>
       /\ (Len(wlog') = Len(wlog) + 1
            /\ wlog'[Len(wlog')].name \in {"repo", "pr"}) =>
            /\ pr_reads' = pr_reads
            /\ wrappers' = wrappers
            /\ wlog'[Len(wlog')].result.outcome = "value"
            /\ wlog'[Len(wlog')].name = "repo" =>
                  wlog'[Len(wlog')].result.value = [full_name |-> "repo1"]
            /\ wlog'[Len(wlog')].name = "pr" =>
                  wlog'[Len(wlog')].result.value = hub["repo1"][1]
      ]_vars

\* C23's case: a wrapper of a record whose mergeable is "True" was
\* constructed and its repo and pr were read: nothing was fetched and the
\* cache is unset.
C23_Witness ==
    /\ Len(wrappers) = 1 /\ Len(wlog) = 2
    /\ wlog[1].name = "repo" /\ wlog[2].name = "pr"
    /\ pr_mergeable[TheRaw.id] = "True"
    /\ pr_reads[TheRaw.id] = 0
    /\ wrappers[1]._mergeable = None

-----------------------------------------------------------------------------
(* tugboat/reports.py: the progress callbacks.  A print call on sys.stderr *)
(* is a record: the text printed, its arguments, and the line end.         *)

ErrLine(text, target, name, x, y, end) ==
    [text |-> text, target |-> target, name |-> name, x |-> x, y |-> y,
     end |-> end]

\* sum(1 for pull in pulls if pull.mergeable): the count, and the heap and
\* the read counters after the reads, made in list order.
RECURSIVE SumMergeable(_, _, _, _)
SumMergeable(h, u, n, list) ==
    IF list = <<>>
    THEN [count |-> 0, heap |-> h, reads |-> n]
    ELSE LET r    == MergeableGet(h, u, n, Head(list))
             rest == SumMergeable(r.heap, u, r.reads, Tail(list))
         IN  [count |-> rest.count + (IF Truthy(r.value) THEN 1 ELSE 0),
              heap  |-> rest.heap, reads |-> rest.reads]

\* The callbacks a caller may pass: none, a callback without effects (the
\* tests' mock), and the two of reports.verbosity.
Callbacks == {None, "mock", "_normal_callback", "_verbose_callback"}

\* repo_callback(idx, count, repo): what it appends to sys.stderr.
CallbackPre(cb, e, idx, count, repo) ==
    CASE cb = "_normal_callback" ->
            Append(e, ErrLine("Processing repository", "", repo.full_name,
                              idx + 1, count, "\n"))
      [] cb = "_verbose_callback" ->
            Append(e, ErrLine("Processing repository", "", repo.full_name,
                              idx + 1, count, " "))
      [] OTHER -> e

\* repo_callback(idx, count, repo, pulls): sys.stderr, the heap and the read
\* counters afterwards.
CallbackPost(cb, e, h, u, n, idx, count, repo, list) ==
    IF cb = "_verbose_callback"
    THEN LET m == SumMergeable(h, u, n, list) IN
         [err   |-> e \o <<ErrLine("pulls", "", "", Len(list), 0, " "),
                          ErrLine("mergeable", "", "", m.count, 0, "\n")>>,
          heap  |-> m.heap, reads |-> m.reads]
    ELSE [err |-> e, heap |-> h, reads |-> n]

-----------------------------------------------------------------------------
(* tugboat/pulls.py: the shared resolver _from_repos.                      *)

\* A github.Repository.Repository handle, and its get_pulls().
Repo(name) == [full_name |-> name]
GetPulls(repo) == hub[repo.full_name]

\* An entry of `events': a callback invocation with nargs arguments (3
\* before the fetch, 4 after it, the fourth being the wrapped list), or a
\* call of get_pulls() (nargs = 0).  A call returns unless marked raised.
Event(ev, nargs, idx, count, repo, list) ==
    [ev |-> ev, nargs |-> nargs, idx |-> idx, count |-> count,
     repo |-> repo, pulls |-> list, raised |-> FALSE]

\* The same call, ended by an exception.
Raised(e) == [e EXCEPT !.raised = TRUE]

NotifyPreOneBased(cb, log, idx, count, repo) ==
    IF cb # None
    THEN Append(log, Event("cb", 3, idx + 1, count, repo, <<>>))
    ELSE log

\* if repo_callback: repo_callback(idx, len(repos), repo)
NotifyPre(cb, log, idx, count, repo) ==
    IF cb # None
    THEN Append(log, Event("cb", 3, idx, count, repo, <<>>))
    ELSE log

\* if repo_callback: repo_callback(idx, len(repos), repo, repo_pulls)
NotifyPost(cb, log, idx, count, repo, list) ==
    IF cb # None
    THEN Append(log, Event("cb", 4, idx, count, repo, list))
    ELSE log

\* [cls(repo, pr) for pr in listing]
Wrap(repo, listing) ==
    [k \in 1..Len(listing) |-> PullRequestInit(repo, listing[k])]

ExtendUnique(list, more) ==
    list \o SelectSeq(more, LAMBDA w :
                \A k \in 1..Len(list) :
                    wrappers[list[k]]._pr # wrappers[w]._pr)

\* pulls.extend(repo_pulls)
Extend(list, more) == list \o more

\* repos = list(repos); pulls = []; and the loop is entered.
FromReposCall(repositories, cb) ==
    /\ r_repos' = repositories
    /\ r_cb' = cb
    /\ r_pulls' = <<>>
    /\ r_repo_pulls' = <<>>
    /\ r_idx' = 0
    /\ r_pc' = "loop"

\* The loop's next repository: the status update before the fetch.
FromReposPre ==
    /\ r_pc = "loop" /\ r_idx < Len(r_repos)
    /\ LET repo == r_repos[r_idx + 1] IN
       /\ events' = NotifyPre(r_cb, events, r_idx, Len(r_repos), repo)
       /\ err' = CallbackPre(r_cb, err, r_idx, Len(r_repos), repo)
    /\ r_pc' = "fetch"
    /\ UNCHANGED <<sumVars, hubVars, wrapVars, procVars, r_repos, r_idx, r_pulls, r_repo_pulls,
                   r_cb, repVars>>

\* repo_pulls = [cls(repo, pr) for pr in repo.get_pulls()]
FromReposFetch ==
    /\ r_pc = "fetch"
    /\ LET repo    == r_repos[r_idx + 1]
           listing == GetPulls(repo)
           base    == Len(wrappers)
       IN  /\ events' = Append(events, Event("get_pulls", 0, r_idx,
                                             Len(r_repos), repo, <<>>))
           /\ wrappers' = wrappers \o Wrap(repo, listing)
           /\ r_repo_pulls' = [k \in 1..Len(listing) |-> base + k]
    /\ r_pc' = "post"
    /\ UNCHANGED <<sumVars, hubVars, wlog, procVars, r_repos, r_idx, r_pulls, r_cb, repVars,
                   err>>

FetchFailureSkipsRepository == "post"

\* Where _from_repos goes when get_pulls() raises: nothing catches the
\* exception, which leaves the routine.
FetchFailure == "raised"

\* repo.get_pulls() raises (the hosting service fails the request).
FromReposFetchFails ==
    /\ r_pc = "fetch"
    /\ LET repo == r_repos[r_idx + 1] IN
          events' = Append(events, Raised(Event("get_pulls", 0, r_idx,
                                                Len(r_repos), repo, <<>>)))
    /\ r_repo_pulls' = <<>>
    /\ r_pc' = FetchFailure
    /\ UNCHANGED <<sumVars, hubVars, wrapVars, procVars, r_repos, r_idx, r_pulls, r_cb, repVars,
                   err>>

\* The status update after the fetch, and pulls.extend(repo_pulls).
FromReposPost ==
    /\ r_pc = "post"
    /\ LET repo == r_repos[r_idx + 1]
           c    == CallbackPost(r_cb, err, wrappers, pr_mergeable, pr_reads,
                                r_idx, Len(r_repos), repo, r_repo_pulls)
       IN  /\ events' = NotifyPost(r_cb, events, r_idx, Len(r_repos), repo,
                                   r_repo_pulls)
           /\ err' = c.err
           /\ wrappers' = c.heap
           /\ pr_reads' = c.reads
    /\ r_pulls' = Extend(r_pulls, r_repo_pulls)
    /\ r_idx' = r_idx + 1
    /\ r_pc' = "loop"
    /\ UNCHANGED <<sumVars, hub, pr_mergeable, wlog, procVars, r_repos, r_repo_pulls, r_cb,
                   repVars>>

\* return pulls
FromReposReturn ==
    /\ r_pc = "loop" /\ r_idx >= Len(r_repos)
    /\ r_pc' = "returned"
    /\ UNCHANGED <<sumVars, hubVars, wrapVars, procVars, r_repos, r_idx, r_pulls, r_repo_pulls,
                   r_cb, events, repVars, err>>

FromRepos ==
    \/ FromReposPre \/ FromReposFetch \/ FromReposFetchFails
    \/ FromReposPost \/ FromReposReturn

-----------------------------------------------------------------------------
(* SpecResolve: one call _from_repos(repos, repo_callback), for every      *)
(* sequence of at most MaxRepos repositories (a repository may occur       *)
(* twice) over every content of the hosting service in which a repository  *)
(* lists at most MaxListing records, in any order of their numbers.        *)

\* The sequences over S of length at most n without a repeated element.
InjectiveSeqs(S, n) ==
    {q \in SeqsUpTo(S, n) : \A i, j \in 1..Len(q) : i # j => q[i] # q[j]}

\* The listings a repository can have: records numbered 1..MaxListing, in
\* any order, created and updated at the time their number gives.
Listings(name) ==
    {[k \in 1..Len(q) |-> RawPull(name, q[k], q[k], q[k])] :
        q \in InjectiveSeqs(1..MaxListing, MaxListing)}

\* The ids of the records a hub lists.
IdsOf(h) == UNION {{h[n][k].id : k \in 1..Len(h[n])} : n \in DOMAIN h}

\* The value a record's mergeable holds when nothing says otherwise: it
\* differs from record to record and includes None.
DefaultMergeable(id) ==
    CASE id[2] = 1 -> "True" [] id[2] = 2 -> "False" [] OTHER -> None

InitHub(h) ==
    /\ hub = h
    /\ pr_mergeable = [i \in IdsOf(h) |-> DefaultMergeable(i)]
    /\ pr_reads = [i \in IdsOf(h) |-> 0]

InitResolve ==
    /\ \E l1 \in Listings("repo1"), l2 \in Listings("repo2") :
          InitHub([n \in {"repo1", "repo2"} |->
                        IF n = "repo1" THEN l1 ELSE l2])
    /\ wrappers = <<>> /\ wlog = <<>>
    /\ r_repos \in SeqsUpTo({Repo("repo1"), Repo("repo2")}, MaxRepos)
    /\ r_cb \in Callbacks
    /\ r_pc = "loop" /\ r_idx = 0 /\ r_pulls = <<>> /\ r_repo_pulls = <<>>
    /\ events = <<>> /\ err = <<>>
    /\ InitIdleRepoSummary
    /\ InitIdleReport

SpecResolve == InitResolve /\ [][FromRepos]_vars

\* wrapped(L_1) ++ ... ++ wrapped(L_n) for the repositories rs: the
\* (repository, raw record) pairs in repository order, then listing order.
RECURSIVE Wrapped(_)
Wrapped(rs) ==
    IF rs = <<>> THEN <<>>
    ELSE [k \in 1..Len(GetPulls(Head(rs))) |->
            [_repo |-> Head(rs), _pr |-> GetPulls(Head(rs))[k]]]
         \o Wrapped(Tail(rs))

\* What a list of wrapper references refers to.
Deref(list) ==
    [k \in 1..Len(list) |->
        [_repo |-> wrappers[list[k]]._repo, _pr |-> wrappers[list[k]]._pr]]

\* The events of one kind, in order.
EventsOf(ev) == SelectSeq(events, LAMBDA e : e.ev = ev)

\* C1: _from_repos returns exactly wrapped(L_1) ++ ... ++ wrapped(L_n): one
\* wrapper of its own per raw record, in repository order then listing
\* order, each with the repository that listed it, nothing sorted, dropped
\* or deduplicated; and get_pulls() was called once per repository.
C1_ResolveConcatenates ==
    r_pc = "returned" =>
        /\ Deref(r_pulls) = Wrapped(r_repos)
        /\ \A i, j \in 1..Len(r_pulls) : i # j => r_pulls[i] # r_pulls[j]
        /\ LET g == EventsOf("get_pulls") IN
              /\ Len(g) = Len(r_repos)
              /\ \A i \in 1..Len(g) :
                    g[i].idx = i - 1 /\ g[i].repo = r_repos[i]

\* C1's case: the same repository twice, listing its two records newest
\* first: four wrappers come back, the second pair repeating the first.
C1_Witness ==
    /\ r_pc = "returned"
    /\ r_repos = <<Repo("repo2"), Repo("repo2")>>
    /\ Len(r_pulls) = 4
    /\ wrappers[r_pulls[1]]._pr.number = 2
    /\ wrappers[r_pulls[3]]._pr = wrappers[r_pulls[1]]._pr

\* The number of raw records the repositories before position i list.
RECURSIVE Offset(_)
Offset(i) == IF i <= 1 THEN 0 ELSE Offset(i - 1) + Len(GetPulls(r_repos[i - 1]))

\* C2: with a callback, the events are, for i = 0..n-1 in this order,
\* cb(i, n, repo_i), repo_i.get_pulls(), cb(i, n, repo_i, wrapped(L_i)), n
\* being the full count from the first call on: at every moment the events
\* are a prefix of that trace, and on return they are all of it (2n
\* callback invocations).  Without a callback no callback is invoked.
C2_CallbackTrace ==
    LET n == Len(r_repos) IN
    IF r_cb # None
    THEN /\ Len(events) <= 3 * n
         /\ r_pc = "returned" =>
                Len(events) = 3 * n /\ Len(EventsOf("cb")) = 2 * n
         /\ \A j \in 1..Len(events) :
               LET i == (j - 1) \div 3
                   e == events[j]
               IN  /\ e.idx = i /\ e.repo = r_repos[i + 1]
                   /\ (j - 1) % 3 = 0 =>
                         e.ev = "cb" /\ e.nargs = 3 /\ e.count = n
                   /\ (j - 1) % 3 = 1 => e.ev = "get_pulls"
                   /\ (j - 1) % 3 = 2 =>
                         /\ e.ev = "cb" /\ e.nargs = 4 /\ e.count = n
                         /\ Deref(e.pulls) = Wrapped(<<r_repos[i + 1]>>)
                         /\ r_pc = "returned" =>
                               e.pulls = SubSeq(r_pulls, Offset(i + 1) + 1,
                                                Offset(i + 2))
    ELSE EventsOf("cb") = <<>>

\* C2's case: a callback and two repositories with records: six events.
C2_Witness ==
    /\ r_pc = "returned" /\ r_cb = "mock"
    /\ r_repos = <<Repo("repo1"), Repo("repo2")>>
    /\ Len(events) = 6
    /\ Len(events[3].pulls) = 2 /\ Len(events[6].pulls) = 1

\* C16: if get_pulls() raises for the repository at index i, the exception
\* leaves _from_repos at once: the failed call is the last event, so
\* get_pulls() was called once for each index up to i and for none beyond, the
\* callback was not invoked with the list of index i nor at all for a later
\* index, and the routine is left without returning a list.
C16_FetchFailurePropagates ==
    /\ \A j \in 1..Len(events) :
          events[j].raised =>
              /\ j = Len(events)
              /\ r_pc = "raised"
              /\ events[j].ev = "get_pulls" /\ events[j].idx = r_idx
    /\ r_pc = "raised" =>
          /\ events # <<>> /\ events[Len(events)].raised
          /\ LET g == EventsOf("get_pulls") IN
                /\ Len(g) = r_idx + 1
                /\ \A k \in 1..Len(g) : g[k].idx = k - 1
          /\ \A j \in 1..Len(events) :
                /\ events[j].idx <= r_idx
                /\ events[j].idx = r_idx => events[j].nargs # 4
          /\ Deref(r_pulls) = Wrapped(SubSeq(r_repos, 1, r_idx))

\* C16's case: with a callback and two repositories, the second fetch
\* fails after the first returned pull requests.
C16_Witness ==
    /\ r_pc = "raised" /\ r_cb = "mock"
    /\ Len(r_repos) = 2 /\ r_idx = 1
    /\ Len(r_pulls) = 2 /\ Len(events) = 5

-----------------------------------------------------------------------------
(* tugboat/reports.py: PullSummary.                                        *)

\* PullRequest.__getattr__: an attribute of the wrapped record.
GetAttr(h, p) == h[p]._pr

\* PullSummary.__init__
PullSummaryInit ==
    [oldest |-> NoPull, youngest |-> NoPull,
     least_recent |-> NoPull, most_recent |-> NoPull]

AddPullLastWins(h, s, p) ==
    LET s1 == IF s.oldest = NoPull
                 \/ GetAttr(h, s.oldest).created_at >= GetAttr(h, p).created_at
              THEN [s EXCEPT !.oldest = p] ELSE s
        s2 == IF s1.youngest = NoPull
                 \/ GetAttr(h, s1.youngest).created_at < GetAttr(h, p).created_at
              THEN [s1 EXCEPT !.youngest = p] ELSE s1
        s3 == IF s2.least_recent = NoPull
                 \/ GetAttr(h, s2.least_recent).updated_at > GetAttr(h, p).updated_at
              THEN [s2 EXCEPT !.least_recent = p] ELSE s2
    IN  IF s3.most_recent = NoPull
           \/ GetAttr(h, s3.most_recent).updated_at < GetAttr(h, p).updated_at
        THEN [s3 EXCEPT !.most_recent = p] ELSE s3

\* PullSummary.add_pull: the four tests, in the order of the code.
AddPull(h, s, p) ==
    LET s1 == IF s.oldest = NoPull
                 \/ GetAttr(h, s.oldest).created_at > GetAttr(h, p).created_at
              THEN [s EXCEPT !.oldest = p] ELSE s
        s2 == IF s1.youngest = NoPull
                 \/ GetAttr(h, s1.youngest).created_at < GetAttr(h, p).created_at
              THEN [s1 EXCEPT !.youngest = p] ELSE s1
        s3 == IF s2.least_recent = NoPull
                 \/ GetAttr(h, s2.least_recent).updated_at > GetAttr(h, p).updated_at
              THEN [s2 EXCEPT !.least_recent = p] ELSE s2
    IN  IF s3.most_recent = NoPull
           \/ GetAttr(h, s3.most_recent).updated_at < GetAttr(h, p).updated_at
        THEN [s3 EXCEPT !.most_recent = p] ELSE s3

\* PullSummary.add_pulls: the calls of add_pull it makes, in order.
AddPullsCalls(list) ==
    [i \in 1..Len(list) |->
        [op |-> "add_pull", target |-> "", name |-> "", cb |-> None,
         arg |-> list[i]]]

\* PullSummary.add_pulls: add_pull for each element, in order.
RECURSIVE AddPulls(_, _, _)
AddPulls(h, s, list) ==
    IF list = <<>> THEN s
    ELSE AddPulls(h, AddPull(h, s, Head(list)), Tail(list))

-----------------------------------------------------------------------------
(* SpecSummary: a fresh PullSummary and up to MaxAdds calls of add_pull,   *)
(* each with a new pull request of any timestamps or with one added before.*)

InitSummary ==
    /\ InitHub([n \in {"repo1"} |-> <<>>])
    /\ wrappers = <<>> /\ wlog = <<>>
    /\ InitIdleRepoSummary
    /\ InitIdleResolver
    /\ InitIdleProcess
    /\ pc = "idle" /\ repos = <<>> /\ repo_callback = None /\ sort_by = None
    /\ start = 0 /\ spec_i = 0 /\ repos_d = <<>> /\ pull_i = 0 /\ out = <<>>
    /\ ages = <<>> /\ collected = <<>> /\ clock = 0 /\ nows = <<>>
    /\ trace = <<>>
    /\ pr_summary = PullSummaryInit
    /\ pulls = <<>>

\* summary.add_pull(PullRequest(repo, pr)) for a record not seen before.
SummaryAddNew ==
    /\ Len(pulls) < MaxAdds
    /\ \E c \in 1..MaxTime, u \in 1..MaxTime :
          LET p == Len(wrappers) + 1
              h == Append(wrappers,
                          PullRequestInit(Repo("repo1"), RawPull("repo1", p, c, u)))
          IN  /\ wrappers' = h
              /\ pr_summary' = AddPull(h, pr_summary, p)
              /\ pulls' = Append(pulls, p)
    /\ UNCHANGED <<sumVars, hubVars, wlog, procVars, resVars, pc, repos, repo_callback, sort_by,
                   start, spec_i, repos_d, pull_i, out, ages, collected, clock, nows,
                   trace, err>>

\* summary.add_pull(pull) for a pull added before.
SummaryAddAgain ==
    /\ Len(pulls) < MaxAdds
    /\ \E p \in 1..Len(wrappers) :
          /\ pr_summary' = AddPull(wrappers, pr_summary, p)
          /\ pulls' = Append(pulls, p)
    /\ UNCHANGED <<sumVars, hubVars, wrapVars, procVars, resVars, pc, repos, repo_callback,
                   sort_by, start, spec_i, repos_d, pull_i, out, ages,
                   collected, clock, nows, trace, err>>

NextSummary == SummaryAddNew \/ SummaryAddAgain

SpecSummary == InitSummary /\ [][NextSummary]_vars

Created(p) == wrappers[p]._pr.created_at
Updated(p) == wrappers[p]._pr.updated_at

\* The element of `list' that comes first among those whose key is the
\* least (sign = 1) or the greatest (sign = -1) of the list.
FirstExtreme(list, key(_), sign) ==
    LET k == CHOOSE k \in 1..Len(list) :
                /\ \A j \in 1..Len(list) : sign * key(list[k]) <= sign * key(list[j])
                /\ \A j \in 1..(k - 1) : key(list[j]) # key(list[k])
    IN  list[k]

\* C5: after any sequence of add_pull calls on a fresh summary, either none
\* was made and the four references are unset, or oldest, youngest,
\* least_recent and most_recent are the added pulls of least created_at,
\* greatest created_at, least updated_at and greatest updated_at, each the
\* first added among those that share the extreme value.
C5_SummaryExtremes ==
    IF pulls = <<>>
    THEN pr_summary = PullSummaryInit
    ELSE /\ pr_summary.oldest = FirstExtreme(pulls, Created, 1)
         /\ pr_summary.youngest = FirstExtreme(pulls, Created, -1)
         /\ pr_summary.least_recent = FirstExtreme(pulls, Updated, 1)
         /\ pr_summary.most_recent = FirstExtreme(pulls, Updated, -1)

\* C5's case: three pulls, the first two tied on the least created_at and
\* the last two tied on the greatest updated_at.
C5_Witness ==
    /\ Len(pulls) = 3 /\ Len(wrappers) = 3
    /\ Created(1) = Created(2) /\ Created(2) < Created(3)
    /\ Updated(1) < Updated(2) /\ Updated(2) = Updated(3)
    /\ pr_summary.oldest = 1 /\ pr_summary.most_recent = 2

-----------------------------------------------------------------------------
(* tugboat/reports.py: format_age.  A string built by `fmt % age' is the   *)
(* record of the template and the duration put into it; the empty string   *)
(* is the empty template with no duration.                                 *)

td_zero == 0

Format(fmt, age) == [fmt |-> fmt, age |-> age]
EmptyString == Format("", td_zero)

FormatAgeNonNegative(now, time, fmt) ==
    LET age == now - time IN
    IF age < td_zero THEN EmptyString ELSE Format(fmt, age)

\* format_age(now, time, fmt)
FormatAge(now, time, fmt) ==
    LET age == now - time IN
    IF age <= td_zero THEN EmptyString ELSE Format(fmt, age)

\* The two templates report() uses.
AgeFormats == {" (age: %s)", " (%s ago)"}

\* A call of format_age and what it returned.
AgeCall(now, time, fmt) ==
    [now |-> now, time |-> time, fmt |-> fmt,
     result |-> FormatAge(now, time, fmt)]

-----------------------------------------------------------------------------
(* SpecAge: up to MaxCalls calls of format_age on any times in 0..MaxTime. *)

InitAge ==
    /\ InitHub([n \in {"repo1"} |-> <<>>])
    /\ wrappers = <<>> /\ wlog = <<>>
    /\ InitIdleRepoSummary
    /\ InitIdleResolver
    /\ InitIdleReport

CallFormatAge ==
    /\ Len(ages) < MaxCalls
    /\ \E now \in 0..MaxTime, time \in 0..MaxTime, fmt \in AgeFormats :
          ages' = Append(ages, AgeCall(now, time, fmt))
    /\ UNCHANGED <<sumVars, hubVars, wrapVars, procVars, resVars, pc, repos, repo_callback,
                   sort_by, start, spec_i, pr_summary, pulls, repos_d, pull_i,
                   out, collected, clock, nows, trace, err>>

SpecAge == InitAge /\ [][CallFormatAge]_vars

\* C9: format_age(T, E, fmt) is the empty string whenever E >= T, and
\* otherwise fmt with the positive duration T - E in it; no result carries
\* a zero or negative duration in a template.
C9_FormatAge ==
    \A i \in 1..Len(ages) :
        LET c == ages[i] IN
        /\ c.time >= c.now => c.result = EmptyString
        /\ c.time < c.now =>
              c.result = Format(c.fmt, c.now - c.time) /\ c.result.age > 0
        /\ c.result.fmt # "" => c.result.age > 0

\* C9's case: one call with E = T and one with E < T.
C9_Witness ==
    /\ Len(ages) = 2
    /\ ages[1].time = ages[1].now /\ ages[1].result = EmptyString
    /\ ages[2].time < ages[2].now /\ ages[2].result.fmt = " (age: %s)"

-----------------------------------------------------------------------------
(* tugboat/reports.py: RepoSummary, the sort keys and the sort.            *)

\* RepoSummary.__init__
RepoSummaryInit(name) == [name |-> name, pulls |-> 0, mergeable |-> 0]

RepoSummaryAddCountsUnset(summary, mergeable) ==
    [summary EXCEPT !.pulls = @ + 1,
                    !.mergeable = IF mergeable # "False" THEN @ + 1 ELSE @]

\* RepoSummary.__iadd__, given the value other.mergeable returned.
RepoSummaryAdd(summary, mergeable) ==
    [summary EXCEPT !.pulls = @ + 1,
                    !.mergeable = IF Truthy(mergeable) THEN @ + 1 ELSE @]

\* summary += other, for the RepoSummary s of heap h: __iadd__ changes the
\* object in place and returns self, which the statement binds again.
RepoSummaryIAdd(h, s, mergeable) ==
    [heap |-> [h EXCEPT ![s] = RepoSummaryAdd(@, mergeable)], result |-> s]

-----------------------------------------------------------------------------
(* SpecRepoSummary: up to MaxSummaries RepoSummary objects, constructed at *)
(* any time, and up to MaxAccumulations statements `summary += pull' on    *)
(* any of them, with a pull whose mergeable is True, False or None.        *)

InitRepoSummary ==
    /\ InitHub([n \in {"repo1"} |-> <<>>])
    /\ wrappers = <<>> /\ wlog = <<>>
    /\ summaries = <<>> /\ slog = <<>>
    /\ InitIdleResolver
    /\ InitIdleReport

\* RepoSummary(name), for the next of the repository names.
ConstructSummary ==
    /\ Len(summaries) < MaxSummaries
    /\ summaries' = Append(summaries,
                           RepoSummaryInit(RepoNames[Len(summaries) + 1]))
    /\ UNCHANGED <<slog, hubVars, wrapVars, procVars, resVars, repVars, err>>

\* summary += pull
Accumulate ==
    /\ Len(slog) < MaxAccumulations
    /\ \E s \in 1..Len(summaries), m \in MergeableValues :
          LET r == RepoSummaryIAdd(summaries, s, m) IN
          /\ summaries' = r.heap
          /\ slog' = Append(slog, [target |-> s, mergeable |-> m,
                                   result |-> r.result,
                                   before |-> summaries[s],
                                   after  |-> r.heap[r.result]])
    /\ UNCHANGED <<hubVars, wrapVars, procVars, resVars, repVars, err>>

NextRepoSummary == ConstructSummary \/ Accumulate

SpecRepoSummary == InitRepoSummary /\ [][NextRepoSummary]_vars

\* The accumulations made on the summary s so far, by position.
AccumulationsOn(s) == {i \in 1..Len(slog) : slog[i].target = s}

\* C21: a RepoSummary starts with both counts zero; each accumulation
\* raises the total by one and the mergeable count by one if the pull's
\* mergeable is true and by nothing otherwise, returns the instance it was
\* made on and keeps the name; so every summary has 0 <= mergeable <= total
\* = the number of its accumulations, and its counts never went down.
C21_RepoSummaryCounts ==
    /\ \A i \in 1..Len(slog) :
          LET e == slog[i] IN
          /\ e.after.pulls = e.before.pulls + 1
          /\ e.after.mergeable =
                e.before.mergeable + (IF e.mergeable = "True" THEN 1 ELSE 0)
          /\ e.result = e.target
          /\ e.after.name = e.before.name
          /\ \A j \in AccumulationsOn(e.target) :
                j < i => /\ slog[j].after.pulls <= e.before.pulls
                         /\ slog[j].after.mergeable <= e.before.mergeable
    /\ \A s \in 1..Len(summaries) :
          /\ summaries[s].name = RepoNames[s]
          /\ summaries[s].pulls = Cardinality(AccumulationsOn(s))
          /\ 0 <= summaries[s].mergeable
          /\ summaries[s].mergeable <= summaries[s].pulls
          /\ summaries[s].mergeable =
                Cardinality({i \in AccumulationsOn(s) : slog[i].mergeable = "True"})
          /\ AccumulationsOn(s) = {} =>
                summaries[s] = [name |-> RepoNames[s], pulls |-> 0,
                                mergeable |-> 0]

\* C21's case: three accumulations on one summary, of a mergeable pull, of
\* one whose mergeable is None and of one that is not mergeable, while a
\* second summary stays as constructed.
C21_Witness ==
    /\ Len(summaries) = 2 /\ Len(slog) = 3
    /\ \A i \in 1..3 : slog[i].target = 1
    /\ slog[1].mergeable = "True" /\ slog[2].mergeable = None
    /\ slog[3].mergeable = "False"
    /\ summaries[1] = [name |-> "repo1", pulls |-> 3, mergeable |-> 1]
    /\ summaries[2] = [name |-> "repo2", pulls |-> 0, mergeable |-> 0]

\* The order of Python strings on the repository names: RepoNames lists
\* them in ascending order.
NameRank(name) == CHOOSE i \in 1..Len(RepoNames) : RepoNames[i] = name

\* The order of Python tuples (here of integers): lexicographic.
RECURSIVE TupleLess(_, _)
TupleLess(a, b) ==
    IF a = <<>> THEN b # <<>>
    ELSE IF b = <<>> THEN FALSE
    ELSE IF Head(a) < Head(b) THEN TRUE
    ELSE IF Head(b) < Head(a) THEN FALSE
    ELSE TupleLess(Tail(a), Tail(b))

SortKeysSwapped(by, h, p) ==
    CASE by = "created" -> <<GetAttr(h, p).updated_at>>
      [] by = "updated" -> <<GetAttr(h, p).created_at>>
      [] by = "repo"    -> <<NameRank(h[p]._repo.full_name),
                                  GetAttr(h, p).number>>

\* sort_keys[sort_by](x), a tuple; a full name is given by its rank.
SortKeys(by, h, p) ==
    CASE by = "created" -> <<GetAttr(h, p).created_at>>
      [] by = "updated" -> <<GetAttr(h, p).updated_at>>
      [] by = "repo"    -> <<NameRank(h[p]._repo.full_name),
                                  GetAttr(h, p).number>>

\* The keys of the dict sort_keys.
SortKeyNames == {"created", "updated", "repo"}

InsertBeforeTies(by, h, sorted, p) ==
    LET k == Cardinality({i \in 1..Len(sorted) :
                TupleLess(SortKeys(by, h, sorted[i]),
                          SortKeys(by, h, p))})
    IN  SubSeq(sorted, 1, k) \o <<p>> \o SubSeq(sorted, k + 1, Len(sorted))

\* list.sort is stable: an element goes behind every element whose key is
\* not greater than its own.
InsertStable(by, h, sorted, p) ==
    LET k == Cardinality({i \in 1..Len(sorted) :
                ~TupleLess(SortKeys(by, h, p),
                           SortKeys(by, h, sorted[i]))})
    IN  SubSeq(sorted, 1, k) \o <<p>> \o SubSeq(sorted, k + 1, Len(sorted))

\* pulls.sort(key=sort_keys[sort_by])
RECURSIVE ListSort(_, _, _)
ListSort(by, h, list) ==
    IF list = <<>> THEN <<>>
    ELSE InsertStable(by, h,
                      ListSort(by, h, SubSeq(list, 1, Len(list) - 1)),
                      list[Len(list)])

SortIfKnownElseCreated(by, h, list) ==
    IF by \in SortKeyNames
    THEN ListSort(by, h, list)
    ELSE ListSort("created", h, list)

\* if sort_by in sort_keys: pulls.sort(key=sort_keys[sort_by])
SortIfKnown(by, h, list) ==
    IF by \in SortKeyNames THEN ListSort(by, h, list) ELSE list

SortedByNameReversed(d) ==
    [i \in 1..Cardinality(DOMAIN d) |->
        d[CHOOSE n \in DOMAIN d :
            Cardinality({m \in DOMAIN d : NameRank(m) > NameRank(n)}) = i - 1]]

\* sorted(repos.values(), key=lambda x: x.name)
SortedByName(d) ==
    [i \in 1..Cardinality(DOMAIN d) |->
        d[CHOOSE n \in DOMAIN d :
            Cardinality({m \in DOMAIN d : NameRank(m) < NameRank(n)}) = i - 1]]

SetDefaultReplaces(d, name) ==
    [n \in DOMAIN d \cup {name} |->
        IF n = name THEN RepoSummaryInit(name) ELSE d[n]]

\* repos.setdefault(name, RepoSummary(name))
SetDefault(d, name) ==
    IF name \in DOMAIN d THEN d
    ELSE [n \in DOMAIN d \cup {name} |->
            IF n = name THEN RepoSummaryInit(name) ELSE d[n]]

-----------------------------------------------------------------------------
(* tugboat/pulls.py: the entry points, and the dict reports.targets.       *)

\* gh.get_repo(name)
GetRepo(name) == Repo(name)

\* gh.get_user(name).get_repos() and gh.get_organization(name).get_repos():
\* user1 owns repo2 and repo1, org1 owns repo3 and repo2, listed so.
UserRepos(name) == IF name = "user1" THEN <<Repo("repo2"), Repo("repo1")>> ELSE <<>>
OrgRepos(name) == IF name = "org1" THEN <<Repo("repo3"), Repo("repo2")>> ELSE <<>>

\* gh.get_repos(): every repository of the hosting service, by name.
AllVisibleRepos ==
    LET names == SelectSeq(RepoNames, LAMBDA n : n \in DOMAIN hub)
    IN  [i \in 1..Len(names) |-> Repo(names[i])]

\* gh.get_repo(name), gh.get_organization(name) and gh.get_user(name) find
\* what the name refers to, or raise.
Found(target, name) ==
    CASE target = "repo"         -> name \in DOMAIN hub
      [] target = "organization" -> name = "org1"
      [] target = "user"         -> name = "user1"
      [] target = "all"          -> TRUE

\* PullRequest.from_repo, from_organization, from_user, from_all: the
\* repositories each hands to _from_repos.
ResolverRepos(target, name) ==
    CASE target = "repo"         -> <<GetRepo(name)>>
      [] target = "organization" -> OrgRepos(name)
      [] target = "user"         -> UserRepos(name)
      [] target = "all"          -> AllVisibleRepos

\* An entry of `trace': a call made or a line printed, and its arguments.
Step(op, target, name, cb, arg) ==
    [op |-> op, target |-> target, name |-> name, cb |-> cb, arg |-> arg]

\* The call on the handle `gh' with which an entry point begins.
Lookup(op, name) == Step(op, "", name, None, <<>>)

\* cls._from_repos(repositories, repo_callback)
Delegate(repositories, cb) == Step("_from_repos", "", "", cb, repositories)

\* An entry point's run up to its call of _from_repos: the calls it made,
\* whether it got that far (no lookup raised), and what it handed over.
EntryRun(steps, found, repositories, cb) ==
    [steps |-> IF found THEN Append(steps, Delegate(repositories, cb))
               ELSE steps,
     found |-> found, repos |-> repositories, cb |-> cb]

\* PullRequest.from_repo(gh, repo_name, repo_callback)
FromRepo(name, cb) ==
    EntryRun(<<Lookup("get_repo", name)>>, Found("repo", name),
             ResolverRepos("repo", name), cb)

\* PullRequest.from_organization(gh, org_name, repo_callback)
FromOrganization(name, cb) ==
    EntryRun(IF Found("organization", name)
             THEN <<Lookup("get_organization", name), Lookup("org.get_repos", name)>>
             ELSE <<Lookup("get_organization", name)>>,
             Found("organization", name),
             ResolverRepos("organization", name), cb)

FromUserDropsCallback(name, cb) ==
    EntryRun(IF Found("user", name)
             THEN <<Lookup("get_user", name), Lookup("user.get_repos", name)>>
             ELSE <<Lookup("get_user", name)>>,
             Found("user", name),
             ResolverRepos("user", name), None)

\* PullRequest.from_user(gh, user_name, repo_callback)
FromUser(name, cb) ==
    EntryRun(IF Found("user", name)
             THEN <<Lookup("get_user", name), Lookup("user.get_repos", name)>>
             ELSE <<Lookup("get_user", name)>>,
             Found("user", name),
             ResolverRepos("user", name), cb)

\* PullRequest.from_all(gh, repo_callback)
FromAll(cb) ==
    EntryRun(<<Lookup("gh.get_repos", "")>>, Found("all", ""),
             ResolverRepos("all", ""), cb)

\* The keys of the dict reports.targets.
TargetNames == {"repo", "organization", "user"}

TargetsUserAsOrganization(target, name, cb) ==
    CASE target = "repo"         -> FromRepo(name, cb)
      [] target = "organization" -> FromOrganization(name, cb)
      [] target = "user"         -> FromOrganization(name, cb)

\* targets[target](gh, name, repo_callback)
Targets(target, name, cb) ==
    CASE target = "repo"         -> FromRepo(name, cb)
      [] target = "organization" -> FromOrganization(name, cb)
      [] target = "user"         -> FromUser(name, cb)

\* The four entry points by the kind of what they resolve.
EntryPoints(target, name, cb) ==
    IF target = "all" THEN FromAll(cb) ELSE Targets(target, name, cb)

-----------------------------------------------------------------------------
(* SpecEntry: one call of an entry point, with any name (one the hosting   *)
(* service knows as a repository, a user or an organization, or not at     *)
(* all) and any callback, followed by the run of _from_repos.              *)

EntryNames == {"repo1", "repo3", "user1", "org1", "nobody"}

InitEntry ==
    /\ InitHub([n \in {"repo1", "repo2", "repo3"} |->
                  CASE n = "repo1" -> <<RawPull("repo1", 1, 1, 2),
                                        RawPull("repo1", 2, 2, 1)>>
                    [] n = "repo2" -> <<RawPull("repo2", 1, 1, 1)>>
                    [] OTHER       -> <<>>])
    /\ wrappers = <<>> /\ wlog = <<>>
    /\ InitIdleRepoSummary
    /\ InitIdleResolver
    /\ InitIdleReport

\* PullRequest.from_...(gh, name, repo_callback), up to its call of
\* _from_repos or to the exception of its lookup.
CallEntry ==
    /\ r_pc = "idle" /\ trace = <<>>
    /\ \E target \in TargetNames \cup {"all"}, name \in EntryNames,
          cb \in Callbacks :
          LET run == EntryPoints(target, IF target = "all" THEN "" ELSE name, cb)
              call == Step("resolver", target,
                           IF target = "all" THEN "" ELSE name, cb, <<>>)
          IN  IF run.found
              THEN /\ trace' = <<call>> \o run.steps
                   /\ FromReposCall(run.repos, run.cb)
              ELSE /\ trace' = <<call>> \o run.steps
                                 \o <<Step("raise", target, name, None, <<>>)>>
                   /\ r_pc' = "raised"
                   /\ UNCHANGED <<r_repos, r_idx, r_pulls, r_repo_pulls, r_cb>>
    /\ UNCHANGED <<sumVars, hubVars, wrapVars, procVars, events, pc, repos,
                   repo_callback, sort_by, start, spec_i, pr_summary, pulls,
                   repos_d, pull_i, out, ages, collected, clock, nows, err>>

\* return cls._from_repos(...): the entry point returns what it got.
EntryReturn ==
    /\ r_pc = "returned" /\ pc = "idle"
    /\ trace' = Append(trace, Step("return", "", "", None, r_pulls))
    /\ r_pc' = "idle"
    /\ UNCHANGED <<sumVars, hubVars, wrapVars, procVars, r_repos, r_idx, r_pulls,
                   r_repo_pulls, r_cb, events, pc, repos, repo_callback,
                   sort_by, start, spec_i, pr_summary, pulls, repos_d, pull_i,
                   out, ages, collected, clock, nows, err>>

NextEntry == CallEntry \/ EntryReturn \/ FromRepos

SpecEntry == InitEntry /\ [][NextEntry]_vars

-----------------------------------------------------------------------------
(* tugboat/reports.py: report().  A print call on the output stream is a   *)
(* record: the text it starts with and the values put into it.  A per-pull *)
(* block also names the wrapper it was printed for (ref), which the text   *)
(* does not show.                                                          *)

StatusAlways(cb, e, line) == Append(e, line)

\* repo_callback is set: print(..., file=sys.stderr)
Status(cb, e, line) == IF cb # None THEN Append(e, line) ELSE e

\* The same print call as an entry of `trace'.
StatusStep(cb, line) ==
    IF cb # None
    THEN <<Step("stderr", line.target, line.name, None, line.text)>>
    ELSE <<>>

\* The print calls `lines' on the output stream as entries of `trace'.
Printed(lines) ==
    [i \in 1..Len(lines) |-> Step("stream", "", lines[i].text, None, <<>>)]

\* The collection loop's body up to the resolver's call: the status line,
\* then targets[target](gh, name, repo_callback).
LookupSteps(cb, target, name) ==
    StatusStep(cb, ErrLine("Looking up", target, name, 0, 0, "\n"))
    \o <<Step("resolver", target, name, cb, <<>>)>>

ResolverFailureSkipsSpec(i) == [pc |-> "loop", spec_i |-> i + 1]

\* Where report() goes when the resolver of specification i raises: nothing
\* catches the exception, which leaves report().
ResolverFailure(i) == [pc |-> "raised", spec_i |-> i]

EmptyReportWithTrailer == <<[text |-> "No open pull requests"],
                            [text |-> "Report generated"]>>

\* print(u"No open pull requests", file=stream)
EmptyReport == <<[text |-> "No open pull requests"]>>

\* One of the four lines below `Open PRs': pull.repo.full_name#pull.number
\* with the time shown.
ExtremeLine(text, h, p, time) ==
    [text |-> text, time |-> time, name |-> h[p]._repo.full_name,
     number |-> GetAttr(h, p).number]

\* The lines of the summary, m being the mergeable count.
SummaryLines(h, s, list, m) ==
    <<[text |-> "Open PRs", total |-> Len(list), mergeable |-> m],
      ExtremeLine("Oldest PR", h, s.oldest, GetAttr(h, s.oldest).created_at),
      ExtremeLine("Youngest PR", h, s.youngest,
                  GetAttr(h, s.youngest).created_at),
      ExtremeLine("Least recently updated PR", h, s.least_recent,
                  GetAttr(h, s.least_recent).updated_at),
      ExtremeLine("Most recently updated PR", h, s.most_recent,
                  GetAttr(h, s.most_recent).updated_at)>>

PullBlockAtEmission(h, p, mergeable, now) ==
    [text |-> "Pull request", ref |-> p,
     name |-> h[p]._repo.full_name, number |-> GetAttr(h, p).number,
     created_at |-> GetAttr(h, p).created_at,
     age |-> FormatAge(clock, GetAttr(h, p).created_at, " (age: %s)"),
     username |-> IF GetAttr(h, p).user_name # None
                  THEN GetAttr(h, p).user_name ELSE "<unknown>",
     updated_at |-> GetAttr(h, p).updated_at,
     update |-> FormatAge(clock, GetAttr(h, p).updated_at, " (%s ago)"),
     mergeable |-> IF Truthy(mergeable) THEN "yes" ELSE "no"]

\* The block of one pull request, given what pull.mergeable returned.
PullBlock(h, p, mergeable, now) ==
    [text |-> "Pull request", ref |-> p,
     name |-> h[p]._repo.full_name, number |-> GetAttr(h, p).number,
     created_at |-> GetAttr(h, p).created_at,
     age |-> FormatAge(now, GetAttr(h, p).created_at, " (age: %s)"),
     username |-> IF GetAttr(h, p).user_name # None
                  THEN GetAttr(h, p).user_name ELSE "<unknown>",
     updated_at |-> GetAttr(h, p).updated_at,
     update |-> FormatAge(now, GetAttr(h, p).updated_at, " (%s ago)"),
     mergeable |-> IF Truthy(mergeable) THEN "yes" ELSE "no"]

BreakdownLinesCountLast(d) ==
    [i \in 1..Cardinality(DOMAIN d) |->
          [text |-> "Open PRs for", name |-> SortedByName(d)[i].name,
           pulls |-> SortedByName(d)[i].pulls,
           mergeable |-> SortedByName(d)[i].mergeable]]
    \o <<[text |-> "Repositories with open pull requests",
          count |-> Cardinality(DOMAIN d)]>>

\* The repository breakdown: the count line and a row per RepoSummary.
BreakdownLines(d) ==
    <<[text |-> "Repositories with open pull requests",
       count |-> Cardinality(DOMAIN d)]>>
    \o [i \in 1..Cardinality(DOMAIN d) |->
          [text |-> "Open PRs for", name |-> SortedByName(d)[i].name,
           pulls |-> SortedByName(d)[i].pulls,
           mergeable |-> SortedByName(d)[i].mergeable]]

\* An entry of `nows': a call of datetime.datetime.utcnow(), with what it
\* returned and how much report() had done and written when it was made.
Now(value) == [value |-> value, at |-> Len(trace), written |-> Len(out)]

\* The trailer, given the two readings of the clock.
Trailer(startTime, endTime) ==
    [text |-> "Report generated", elapsed |-> endTime - startTime,
     start |-> startTime]

\* start = utcnow(); pr_summary = PullSummary(); pulls = []
ReportStart ==
    /\ pc = "start"
    /\ start' = clock
    /\ nows' = Append(nows, Now(clock))
    /\ pr_summary' = PullSummaryInit
    /\ pulls' = <<>>
    /\ spec_i' = 0
    /\ pc' = "loop"
    /\ UNCHANGED <<sumVars, hubVars, wrapVars, procVars, resVars, repos,
                   repo_callback, sort_by, repos_d, pull_i, out, ages,
                   collected, clock, trace, err>>

UnknownTargetSkipsSpec(i) == [pc |-> "loop", spec_i |-> i + 1]

\* Where report() goes when the kind of specification i is no key of the
\* dict targets: targets[target] raises KeyError, which nothing catches.
UnknownTarget(i) == [pc |-> "raised", spec_i |-> i]

\* for target, name in repos: the status line and the resolver's call, up
\* to the resolver's call of _from_repos, to the exception of its lookup,
\* or to the KeyError of targets[target].
LookupSpec ==
    /\ pc = "loop" /\ spec_i < Len(repos)
    /\ LET target == repos[spec_i + 1][1]
           name   == repos[spec_i + 1][2]
           run    == Targets(target, name, repo_callback)
       IN  /\ err' = Status(repo_callback, err,
                            ErrLine("Looking up", target, name, 0, 0, "\n"))
           /\ IF target \notin TargetNames
              THEN /\ trace' = trace
                        \o StatusStep(repo_callback,
                               ErrLine("Looking up", target, name, 0, 0, "\n"))
                        \o <<Step("raise", target, name, None, <<>>)>>
                   /\ pc' = UnknownTarget(spec_i).pc
                   /\ spec_i' = UnknownTarget(spec_i).spec_i
                   /\ UNCHANGED <<r_pc, r_repos, r_idx, r_pulls, r_repo_pulls,
                                  r_cb>>
              ELSE IF run.found
              THEN /\ trace' = trace \o LookupSteps(repo_callback, target, name)
                                     \o run.steps
                   /\ FromReposCall(run.repos, run.cb)
                   /\ pc' = "call"
                   /\ UNCHANGED spec_i
              ELSE /\ trace' = trace \o LookupSteps(repo_callback, target, name)
                                     \o run.steps
                                     \o <<Step("raise", target, name, None, <<>>)>>
                   /\ pc' = ResolverFailure(spec_i).pc
                   /\ spec_i' = ResolverFailure(spec_i).spec_i
                   /\ UNCHANGED <<r_pc, r_repos, r_idx, r_pulls, r_repo_pulls,
                                  r_cb>>
    /\ UNCHANGED <<sumVars, hubVars, wrapVars, procVars, events, repos, repo_callback,
                   sort_by, start, pr_summary, pulls, repos_d, pull_i, out,
                   ages, collected, clock, nows>>

\* pulls.extend(pr_summary.add_pulls(repo_pulls))
CollectReturn ==
    /\ pc = "call" /\ r_pc = "returned"
    /\ pr_summary' = AddPulls(wrappers, pr_summary, r_pulls)
    /\ pulls' = Extend(pulls, r_pulls)
    /\ trace' = trace \o <<Step("return", "", "", None, r_pulls)>>
                      \o AddPullsCalls(r_pulls)
    /\ spec_i' = spec_i + 1
    /\ pc' = "loop"
    /\ r_pc' = "idle"
    /\ UNCHANGED <<sumVars, hubVars, wrapVars, procVars, r_repos, r_idx, r_pulls, r_repo_pulls,
                   r_cb, events, repos, repo_callback, sort_by, start,
                   repos_d, pull_i, out, ages, collected, clock, nows, err>>

\* The resolver's call of _from_repos raised: so does the resolver.
CollectRaise ==
    /\ pc = "call" /\ r_pc = "raised"
    /\ trace' = Append(trace, Step("raise", repos[spec_i + 1][1],
                                   repos[spec_i + 1][2], None, <<>>))
    /\ pc' = ResolverFailure(spec_i).pc
    /\ spec_i' = ResolverFailure(spec_i).spec_i
    /\ r_pc' = "idle"
    /\ UNCHANGED <<sumVars, hubVars, wrapVars, procVars, r_repos, r_idx, r_pulls, r_repo_pulls,
                   r_cb, events, repos, repo_callback, sort_by, start,
                   pr_summary, pulls, repos_d, pull_i, out, ages, collected,
                   clock, nows, err>>

\* The loop is over: if sort_by in sort_keys: pulls.sort(...)
SortPulls ==
    /\ pc = "loop" /\ spec_i >= Len(repos)
    /\ collected' = pulls
    /\ pulls' = SortIfKnown(sort_by, wrappers, pulls)
    /\ trace' = Append(trace, Step("sort", "", sort_by, None, <<>>))
    /\ pc' = "generating"
    /\ UNCHANGED <<sumVars, hubVars, wrapVars, procVars, resVars, repos, repo_callback, sort_by,
                   start, spec_i, pr_summary, repos_d, pull_i, out, ages,
                   clock, nows, err>>

\* if repo_callback: print(u'Generating report...', file=sys.stderr)
Generating ==
    /\ pc = "generating"
    /\ err' = Status(repo_callback, err,
                     ErrLine("Generating report...", "", "", 0, 0, "\n"))
    /\ trace' = trace \o StatusStep(repo_callback,
                     ErrLine("Generating report...", "", "", 0, 0, "\n"))
    /\ pc' = "emit"
    /\ UNCHANGED <<sumVars, hubVars, wrapVars, procVars, resVars, repos, repo_callback, sort_by,
                   start, spec_i, pr_summary, pulls, repos_d, pull_i, out,
                   ages, collected, clock, nows>>

\* if not pulls: print(u"No open pull requests", file=stream); return
EmitEmpty ==
    /\ pc = "emit" /\ pulls = <<>>
    /\ out' = out \o EmptyReport
    /\ trace' = trace \o Printed(EmptyReport)
    /\ pc' = "done"
    /\ UNCHANGED <<sumVars, hubVars, wrapVars, procVars, resVars, repos, repo_callback, sort_by,
                   start, spec_i, pr_summary, pulls, repos_d, pull_i, ages,
                   collected, clock, nows, err>>

\* The summary: the mergeable count reads every pull's mergeable; repos = {}
EmitSummary ==
    /\ pc = "emit" /\ pulls # <<>>
    /\ LET m == SumMergeable(wrappers, pr_mergeable, pr_reads, pulls) IN
       /\ out' = out \o SummaryLines(wrappers, pr_summary, pulls, m.count)
       /\ trace' = trace \o Printed(SummaryLines(wrappers, pr_summary, pulls,
                                                 m.count))
       /\ wrappers' = m.heap
       /\ pr_reads' = m.reads
    /\ repos_d' = <<>>
    /\ pull_i' = 0
    /\ pc' = "pull"
    /\ UNCHANGED <<sumVars, hub, pr_mergeable, wlog, procVars, resVars, repos, repo_callback,
                   sort_by, start, spec_i, pr_summary, pulls, ages, collected,
                   clock, nows, err>>

\* for pull in pulls: the block, then repos.setdefault(...) and
\* repos[pull.repo.full_name] += pull.  pull.mergeable is read for the
\* block and again by RepoSummary.__iadd__.
EmitPull ==
    /\ pc = "pull" /\ pull_i < Len(pulls)
    /\ LET p    == pulls[pull_i + 1]
           name == wrappers[p]._repo.full_name
           r1   == MergeableGet(wrappers, pr_mergeable, pr_reads, p)
           r2   == MergeableGet(r1.heap, pr_mergeable, r1.reads, p)
           d    == SetDefault(repos_d, name)
       IN  /\ out' = Append(out, PullBlock(wrappers, p, r1.value, start))
           /\ trace' = trace \o Printed(<<PullBlock(wrappers, p, r1.value,
                                                    start)>>)
           /\ ages' = ages \o
                 <<AgeCall(start, GetAttr(wrappers, p).created_at, " (age: %s)"),
                   AgeCall(start, GetAttr(wrappers, p).updated_at, " (%s ago)")>>
           /\ repos_d' = [d EXCEPT ![name] = RepoSummaryAdd(@, r2.value)]
           /\ wrappers' = r2.heap
           /\ pr_reads' = r2.reads
    /\ pull_i' = pull_i + 1
    /\ UNCHANGED <<sumVars, hub, pr_mergeable, wlog, procVars, resVars, pc, repos, repo_callback,
                   sort_by, start, spec_i, pr_summary, pulls, collected,
                   clock, nows, err>>

\* The repository breakdown.
EmitBreakdown ==
    /\ pc = "pull" /\ pull_i >= Len(pulls)
    /\ out' = out \o BreakdownLines(repos_d)
    /\ trace' = trace \o Printed(BreakdownLines(repos_d))
    /\ pc' = "trailer"
    /\ UNCHANGED <<sumVars, hubVars, wrapVars, procVars, resVars, repos, repo_callback, sort_by,
                   start, spec_i, pr_summary, pulls, repos_d, pull_i, ages,
                   collected, clock, nows, err>>

\* end = utcnow(); the trailer.
EmitTrailer ==
    /\ pc = "trailer"
    /\ nows' = Append(nows, Now(clock))
    /\ out' = Append(out, Trailer(start, clock))
    /\ trace' = trace \o Printed(<<Trailer(start, clock)>>)
    /\ pc' = "done"
    /\ UNCHANGED <<sumVars, hubVars, wrapVars, procVars, resVars, repos,
                   repo_callback, sort_by, start, spec_i, pr_summary, pulls,
                   repos_d, pull_i, ages, collected, clock, err>>

\* Time passes while report() runs: the clock advances, by at most
\* MaxElapsed in all.
Tick ==
    /\ pc \in {"loop", "call", "generating", "emit", "pull", "trailer"}
    /\ clock - start < MaxElapsed
    /\ clock' = clock + 1
    /\ UNCHANGED <<sumVars, hubVars, wrapVars, procVars, resVars, pc, repos,
                   repo_callback, sort_by, start, spec_i, pr_summary, pulls,
                   repos_d, pull_i, out, ages, collected, nows, trace, err>>

Report ==
    \/ ReportStart \/ LookupSpec \/ CollectReturn \/ CollectRaise
    \/ SortPulls \/ Generating
    \/ EmitEmpty \/ EmitSummary \/ EmitPull \/ EmitBreakdown \/ EmitTrailer

Next == Report \/ FromRepos \/ Tick

-----------------------------------------------------------------------------
(* Spec: one call report(gh, repos, stream, repo_callback, sort_by).       *)
(*                                                                         *)
(* The hosting service holds repo1 (two records), repo2 (one) and repo3    *)
(* (none).  The calls are of two kinds.  In the first the records hold the *)
(* times of the tests (created 10, 20, 30; updated 90, 80, 70; the clock   *)
(* reads 80) and repos is any list of at most MaxSpecs specifications,     *)
(* with any callback.  In the second the records hold any times in         *)
(* 1..MaxTime, repo1 lists its records in either order, and repos is one   *)
(* of two lists that reach both repositories.  sort_by is one of the three *)
(* keys or a string that is no key.                                        *)

\* The (kind, name) pairs given: those that resolve, a user that the
\* hosting service does not know, and a kind that is no key of targets.
SpecChoices ==
    {<<"repo", "repo1">>, <<"repo", "repo2">>, <<"repo", "repo3">>,
     <<"user", "user1">>, <<"organization", "org1">>, <<"user", "nobody">>,
     <<"team", "team1">>}

SortByValues == SortKeyNames \cup {"other"}

\* The hub of ReportTest.test_basic, for its first three records.
ScenarioHub ==
    [n \in {"repo1", "repo2", "repo3"} |->
        CASE n = "repo1" -> <<RawPull("repo1", 1, 10, 90),
                              RawPull("repo1", 2, 20, 80)>>
          [] n = "repo2" -> <<RawPull("repo2", 1, 30, 70)>>
          [] OTHER       -> <<>>]

\* The hubs whose three records hold the times c (created) and u (updated),
\* repo1 listing its newer record first when asked to.
TimedHub(c, u, newestFirst) ==
    [n \in {"repo1", "repo2", "repo3"} |->
        CASE n = "repo1" ->
                IF newestFirst
                THEN <<RawPull("repo1", 2, c[2], u[2]), RawPull("repo1", 1, c[1], u[1])>>
                ELSE <<RawPull("repo1", 1, c[1], u[1]), RawPull("repo1", 2, c[2], u[2])>>
          [] n = "repo2" -> <<RawPull("repo2", 1, c[3], u[3])>>
          [] OTHER       -> <<>>]

InitCall(h, now, specs, cb, by) ==
    /\ InitHub(h)
    /\ clock = now
    /\ repos = specs
    /\ repo_callback = cb
    /\ sort_by = by

InitReport ==
    /\ \/ \E specs \in SeqsUpTo(SpecChoices, MaxSpecs),
             cb \in {None, "_normal_callback", "_verbose_callback"},
             by \in SortByValues :
             InitCall(ScenarioHub, 80, specs, cb, by)
       \/ \E c \in [1..3 -> 1..MaxTime], u \in [1..3 -> 1..MaxTime],
             newestFirst \in BOOLEAN,
             specs \in {<<<<"repo", "repo1">>, <<"repo", "repo2">>>>,
                        <<<<"user", "user1">>>>},
             by \in SortByValues :
             InitCall(TimedHub(c, u, newestFirst), MaxTime, specs, None, by)
    /\ wrappers = <<>> /\ wlog = <<>>
    /\ InitIdleRepoSummary
    /\ InitIdleResolver
    /\ InitIdleProcess
    /\ pc = "start"
    /\ start = 0 /\ spec_i = 0 /\ pr_summary = PullSummaryInit /\ pulls = <<>>
    /\ repos_d = <<>> /\ pull_i = 0 /\ out = <<>> /\ ages = <<>>
    /\ collected = <<>> /\ nows = <<>> /\ trace = <<>>

Spec == InitReport /\ [][Next]_vars

-----------------------------------------------------------------------------
(* SpecRemote: one call of report() over the hub of the tests, each record *)
(* of which reports a mergeable of True, False or None; the hosting        *)
(* service computes mergeability in the background, so that a record which *)
(* reports None may at any moment begin to report True or False.           *)

\* The specification lists: a repository with two pull requests, one with
\* none, and a user that the hosting service does not know.
RemoteSpecs ==
    {<<<<"repo", "repo1">>>>, <<<<"repo", "repo3">>>>, <<<<"user", "nobody">>>>}

InitRemote ==
    /\ hub = ScenarioHub
    /\ pr_mergeable \in [IdsOf(ScenarioHub) -> MergeableValues]
    /\ pr_reads = [i \in IdsOf(ScenarioHub) |-> 0]
    /\ clock = 80
    /\ repos \in RemoteSpecs
    /\ repo_callback \in {None, "_verbose_callback"}
    /\ sort_by = "created"
    /\ wrappers = <<>> /\ wlog = <<>>
    /\ InitIdleRepoSummary
    /\ InitIdleResolver
    /\ InitIdleProcess
    /\ pc = "start"
    /\ start = 0 /\ spec_i = 0 /\ pr_summary = PullSummaryInit /\ pulls = <<>>
    /\ repos_d = <<>> /\ pull_i = 0 /\ out = <<>> /\ ages = <<>>
    /\ collected = <<>> /\ nows = <<>> /\ trace = <<>>

\* The hosting service has computed the mergeability of a record.
RemoteSettle ==
    /\ \E id \in DOMAIN pr_mergeable, v \in {"True", "False"} :
          /\ pr_mergeable[id] = None
          /\ pr_mergeable' = [pr_mergeable EXCEPT ![id] = v]
    /\ UNCHANGED <<sumVars, hub, pr_reads, wrapVars, procVars, resVars,
                   repVars, err>>

NextRemote == Next \/ RemoteSettle

SpecRemote == InitRemote /\ [][NextRemote]_vars

-----------------------------------------------------------------------------
(* tugboat/reports.py: _process_report, the processor that runs around     *)
(* report(): what precedes its `yield' prepares the arguments, report()    *)
(* runs at the `yield', and the `finally' clause follows however report()  *)
(* ended.                                                                  *)

VerbositySwapped == <<None, "_verbose_callback", "_normal_callback">>

\* verbosity = [None, _normal_callback, _verbose_callback], from index 0.
Verbosity == <<None, "_normal_callback", "_verbose_callback">>

\* The streams of a run: standard output and the file --output may name.
StreamNames == {"sys.stdout", "report.txt"}

\* io.open(name, 'w', encoding='utf-8') and stream.close()
Open(st, f) == [st EXCEPT ![f].opened = @ + 1]
Close(st, f) == [st EXCEPT ![f].closed = @ + 1]

FinallyOnReturnOnly(outcome, cl, st, f) ==
    IF Truthy(cl) /\ outcome = "done" THEN Close(st, f) ELSE st

\* finally: if close: args.stream.close(), report() having ended by a
\* return (outcome "done") or by an exception ("raised").
Finally(outcome, cl, st, f) ==
    IF Truthy(cl) THEN Close(st, f) ELSE st

\* password = args.password or getpass.getpass(...); args.gh = Github(...)
ProcessLogin ==
    /\ p_pc = "start"
    /\ args' = [args EXCEPT !.gh =
                    [username |-> args.username,
                     password |-> IF args.password = ""
                                  THEN "typed" ELSE args.password]]
    /\ p_pc' = "stream"
    /\ UNCHANGED <<sumVars, hubVars, wrapVars, resVars, repVars, close, streams, err>>

\* Select the output stream: standard output, or the file opened.
ProcessStream ==
    /\ p_pc = "stream"
    /\ IF args.output = "-"
       THEN /\ args' = [args EXCEPT !.stream = "sys.stdout"]
            /\ close' = "False"
            /\ UNCHANGED streams
       ELSE /\ args' = [args EXCEPT !.stream = args.output]
            /\ streams' = Open(streams, args.output)
            /\ close' = "True"
    /\ p_pc' = "verbosity"
    /\ UNCHANGED <<sumVars, hubVars, wrapVars, resVars, repVars, err>>

\* io.open raises: the processor is left before its try statement.
ProcessStreamFails ==
    /\ p_pc = "stream" /\ args.output # "-"
    /\ p_pc' = "raised"
    /\ UNCHANGED <<sumVars, hubVars, wrapVars, resVars, repVars, args, close, streams,
                   err>>

\* args.repo_callback = verbosity[args.verbose]
ProcessVerbosity ==
    /\ p_pc = "verbosity"
    /\ args' = [args EXCEPT !.repo_callback = Verbosity[args.verbose + 1]]
    /\ p_pc' = "yield"
    /\ UNCHANGED <<sumVars, hubVars, wrapVars, resVars, repVars, close, streams, err>>

\* try: yield -- report(gh, repos, stream, repo_callback, sort_by) begins.
ProcessYield ==
    /\ p_pc = "yield" /\ pc = "idle"
    /\ repos' = args.repos
    /\ repo_callback' = args.repo_callback
    /\ sort_by' = args.sort_by
    /\ pc' = "start"
    /\ p_pc' = "report"
    /\ UNCHANGED <<sumVars, hubVars, wrapVars, resVars, start, spec_i, pr_summary,
                   pulls, repos_d, pull_i, out, ages, collected, clock, nows, trace,
                   args, close, streams, err>>

\* report() returned or raised: the finally clause, and the processor ends
\* the way report() did.
ProcessFinally ==
    /\ p_pc = "report" /\ pc \in {"done", "raised"}
    /\ streams' = Finally(pc, close, streams, args.stream)
    /\ p_pc' = pc
    /\ UNCHANGED <<sumVars, hubVars, wrapVars, resVars, repVars, args, close, err>>

Process ==
    \/ ProcessLogin \/ ProcessStream \/ ProcessStreamFails
    \/ ProcessVerbosity \/ ProcessYield \/ ProcessFinally

-----------------------------------------------------------------------------
(* SpecProcess: one run of the command: the processor around report(), for *)
(* either output target, every verbosity, a password given or not, and     *)
(* specification lists that end in a report, in an empty report or in an   *)
(* exception.                                                              *)

\* The Namespace argparse builds, before the processor fills it in.
ArgsValues ==
    [username : {"me"}, password : {"", "secret"},
     output : {"-", "report.txt"}, verbose : 0..2,
     repos : {<<>>, <<<<"repo", "repo1">>>>, <<<<"user", "nobody">>>>,
              <<<<"organization", "org1">>, <<"repo", "repo1">>>>},
     sort_by : {"created"},
     gh : {None}, stream : {None}, repo_callback : {None}]

InitProcess ==
    /\ InitHub(ScenarioHub)
    /\ wrappers = <<>> /\ wlog = <<>>
    /\ InitIdleRepoSummary
    /\ InitIdleResolver
    /\ pc = "idle" /\ repos = <<>> /\ repo_callback = None /\ sort_by = None
    /\ start = 0 /\ spec_i = 0 /\ pr_summary = PullSummaryInit /\ pulls = <<>>
    /\ repos_d = <<>> /\ pull_i = 0 /\ out = <<>> /\ ages = <<>>
    /\ collected = <<>> /\ clock = 80 /\ nows = <<>> /\ trace = <<>>
    /\ p_pc = "start"
    /\ args \in ArgsValues
    /\ close = None
    /\ streams = [f \in StreamNames |-> [opened |-> 0, closed |-> 0]]

NextProcess == Process \/ Report \/ FromRepos \/ Tick

SpecProcess == InitProcess /\ [][NextProcess]_vars

\* C17: the file that --output names is opened at most once, and only when
\* the target is not `-'; it is closed exactly once if it was opened and
\* the processor has ended, whether report() returned or raised, and it is
\* not closed before that; standard output is never opened nor closed.
C17_StreamClosedIffOpened ==
    LET f == "report.txt" IN
    /\ streams["sys.stdout"] = [opened |-> 0, closed |-> 0]
    /\ streams[f].opened = (IF Truthy(close) THEN 1 ELSE 0)
    /\ Truthy(close) => args.output # "-" /\ args.stream = f
    /\ close = "False" => args.output = "-" /\ args.stream = "sys.stdout"
    /\ p_pc \in {"verbosity", "yield", "report", "done"} => close # None
    /\ streams[f].closed =
          (IF Truthy(close) /\ p_pc \in {"done", "raised"} THEN 1 ELSE 0)

\* C17's case: the file was opened, report() raised, and the file is closed.
C17_Witness ==
    /\ p_pc = "raised" /\ pc = "raised" /\ close = "True"
    /\ streams["report.txt"] = [opened |-> 1, closed |-> 1]

-----------------------------------------------------------------------------
(* The claims about report().                                              *)

\* The print calls of one kind on the output stream, in order.
OutLines(text) == SelectSeq(out, LAMBDA l : l.text = text)

\* The wrappers of the per-pull blocks printed so far, in order.
BlockRefs ==
    [i \in 1..Len(OutLines("Pull request")) |-> OutLines("Pull request")[i].ref]

\* The repositories the specifications resolve to, in order (none for a
\* specification whose kind has no resolver).
RECURSIVE AllRepos(_)
AllRepos(specs) ==
    IF specs = <<>> THEN <<>>
    ELSE (IF Head(specs)[1] \in TargetNames
          THEN ResolverRepos(Head(specs)[1], Head(specs)[2])
          ELSE <<>>)
         \o AllRepos(Tail(specs))

\* The position of x in a list without repetition.
PosIn(list, x) == CHOOSE k \in 1..Len(list) : list[k] = x

\* The selected key of pull a is at most (is equal to) that of pull b.
KeyLeq(by, a, b) ==
    CASE by = "created" -> Created(a) <= Created(b)
      [] by = "updated" -> Updated(a) <= Updated(b)
      [] by = "repo" ->
            \/ NameRank(wrappers[a]._repo.full_name)
                  < NameRank(wrappers[b]._repo.full_name)
            \/ /\ wrappers[a]._repo.full_name = wrappers[b]._repo.full_name
               /\ wrappers[a]._pr.number <= wrappers[b]._pr.number
KeyEq(by, a, b) == KeyLeq(by, a, b) /\ KeyLeq(by, b, a)

\* The emission is over: the breakdown has been written.
Emitted == pc \in {"trailer", "done"} /\ collected # <<>>

\* C6: for sort_by in {created, updated, repo} the per-pull blocks are a
\* permutation of the collected list (at every moment a part of it without
\* repetition, in the end all of it), non-decreasing in the selected key,
\* and pulls of equal keys keep their collection order.
C6_SortedStable ==
    sort_by \in {"created", "updated", "repo"} =>
        LET B == BlockRefs IN
        /\ \A i \in 1..Len(B) : \E k \in 1..Len(collected) : collected[k] = B[i]
        /\ \A i, j \in 1..Len(B) : i # j => B[i] # B[j]
        /\ Emitted => Len(B) = Len(collected)
        /\ \A i, j \in 1..Len(B) : i < j =>
              /\ KeyLeq(sort_by, B[i], B[j])
              /\ KeyEq(sort_by, B[i], B[j]) =>
                    PosIn(collected, B[i]) < PosIn(collected, B[j])

\* C6's case: a report sorted by `updated' in which the sort moved a pull
\* and two pulls share their update time.
C6_Witness ==
    /\ pc = "done" /\ sort_by = "updated" /\ Len(BlockRefs) = 3
    /\ BlockRefs # collected
    /\ \E i, j \in 1..3 : i < j /\ Updated(BlockRefs[i]) = Updated(BlockRefs[j])

\* C7: for a sort_by that is no key the sort step leaves the list as it was
\* collected, and the per-pull blocks come in the collection order, which
\* is the specifications' order, then each resolver's order.
C7_UnknownKeyKeepsOrder ==
    sort_by \notin {"created", "updated", "repo"} =>
        /\ pc \in {"generating", "emit", "pull", "trailer", "done"} =>
              /\ pulls = collected
              /\ Deref(collected) = Wrapped(AllRepos(repos))
        /\ Len(BlockRefs) <= Len(collected)
        /\ BlockRefs = SubSeq(collected, 1, Len(BlockRefs))
        /\ Emitted => BlockRefs = collected

\* C7's case: an unknown key and a collection order that is not the order
\* of creation.
C7_Witness ==
    /\ pc = "done" /\ sort_by = "other" /\ Len(BlockRefs) = 3
    /\ \E i, j \in 1..3 : i < j /\ Created(BlockRefs[i]) > Created(BlockRefs[j])

\* No specification, or no resolver that returns a pull request.
NothingToReport ==
    \A k \in 1..Len(AllRepos(repos)) : GetPulls(AllRepos(repos)[k]) = <<>>

\* C8: with nothing to report, report() writes the one line `No open pull
\* requests' and nothing else, and never evaluates format_age.
C8_EmptyReport ==
    NothingToReport =>
        /\ ages = <<>>
        /\ out \in {<<>>, <<[text |-> "No open pull requests"]>>}
        /\ pc = "done" => out = <<[text |-> "No open pull requests"]>>

\* C8's case: a specification whose resolver returns no pull request.
C8_Witness ==
    /\ pc = "done" /\ repos # <<>> /\ NothingToReport
    /\ Len(out) = 1

\* The (full name, number) of a block or the (name, pulls) of a row.
BlockNames ==
    [i \in 1..Len(OutLines("Pull request")) |->
        <<OutLines("Pull request")[i].name, OutLines("Pull request")[i].number>>]
RowCounts ==
    [i \in 1..Len(OutLines("Open PRs for")) |->
        <<OutLines("Open PRs for")[i].name, OutLines("Open PRs for")[i].pulls>>]

\* The scenario: repo1#1 (10, 90), repo1#2 (20, 80) and repo2#1 (30, 70)
\* were collected, each once, and the report is sorted by `updated'.
Scenario ==
    /\ hub = ScenarioHub /\ sort_by = "updated"
    /\ Len(collected) = 3
    /\ {wrappers[collected[k]]._pr : k \in 1..3}
          = {ScenarioHub["repo1"][1], ScenarioHub["repo1"][2],
             ScenarioHub["repo2"][1]}
    /\ \A k \in 1..3 :
          wrappers[collected[k]]._repo.full_name = wrappers[collected[k]]._pr.id[1]

\* C10: in the scenario the blocks are repo2#1, repo1#2, repo1#1 and the
\* breakdown lists repo1 (2 pulls) before repo2 (1 pull).
C10_Scenario ==
    (Scenario /\ pc = "done") =>
        /\ BlockNames = <<<<"repo2", 1>>, <<"repo1", 2>>, <<"repo1", 1>>>>
        /\ RowCounts = <<<<"repo1", 2>>, <<"repo2", 1>>>>

\* C10's case: the scenario, reached through the two repositories' names.
C10_Witness ==
    /\ Scenario /\ pc = "done"
    /\ repos = <<<<"repo", "repo1">>, <<"repo", "repo2">>>>
    /\ Len(OutLines("Pull request")) = 3

\* The repository names of the breakdown rows written so far, in order.
RowNames ==
    [i \in 1..Len(OutLines("Open PRs for")) |-> OutLines("Open PRs for")[i].name]

\* C11: in every non-empty report the breakdown rows are in strictly
\* ascending order of repository full name, one row per repository that has
\* a per-pull block, whatever the sort key and the order of the blocks.
C11_BreakdownAscending ==
    /\ \A i, j \in 1..Len(RowNames) :
          i < j => NameRank(RowNames[i]) < NameRank(RowNames[j])
    /\ Emitted =>
          {RowNames[i] : i \in 1..Len(RowNames)}
             = {BlockNames[i][1] : i \in 1..Len(BlockNames)}

\* C11's case: the blocks of repo2 come before those of repo1, and the rows
\* list repo1 before repo2.
C11_Witness ==
    /\ pc = "done" /\ Len(BlockNames) = 3
    /\ BlockNames[1][1] = "repo2" /\ BlockNames[3][1] = "repo1"
    /\ RowNames = <<"repo1", "repo2">>

\* The number of per-pull blocks written so far that carry the full name n.
BlocksOf(n) == Cardinality({i \in 1..Len(BlockNames) : BlockNames[i][1] = n})

\* The full names of the per-pull blocks written so far.
NamesOfBlocks == {BlockNames[i][1] : i \in 1..Len(BlockNames)}

\* C22: no RepoSummary exists before the emission; during it there is one
\* per full name among the blocks written so far, made at the first block
\* of its name and holding the number of blocks of that name ever since
\* (never replaced or reset); the count line shows the number of distinct
\* full names and each row's total is the number of blocks of its name.
C22_OneSummaryPerRepository ==
    /\ pc \notin {"pull", "trailer", "done"} => repos_d = <<>>
    /\ DOMAIN repos_d = NamesOfBlocks
    /\ \A n \in DOMAIN repos_d :
          repos_d[n].name = n /\ repos_d[n].pulls = BlocksOf(n)
    /\ Emitted =>
          /\ Len(OutLines("Repositories with open pull requests")) = 1
          /\ OutLines("Repositories with open pull requests")[1].count
                = Cardinality(NamesOfBlocks)
          /\ Len(RowCounts) = Cardinality(NamesOfBlocks)
          /\ \A i \in 1..Len(RowCounts) :
                RowCounts[i][2] = BlocksOf(RowCounts[i][1])
          /\ \A i, j \in 1..Len(RowCounts) :
                i # j => RowCounts[i][1] # RowCounts[j][1]

\* C22's case: the blocks of repo1 are separated by one of repo2, and the
\* breakdown counts two repositories, repo1 with both of its pulls.
C22_Witness ==
    /\ pc = "done"
    /\ [i \in 1..Len(BlockNames) |-> BlockNames[i][1]]
          = <<"repo1", "repo2", "repo1">>
    /\ OutLines("Repositories with open pull requests")[1].count = 2
    /\ RowCounts = <<<<"repo1", 2>>, <<"repo2", 1>>>>

-----------------------------------------------------------------------------
(* The claims about the steps of report().                                 *)

\* The entries of `trace' of one kind, in order, and their positions.
TraceOf(op) == SelectSeq(trace, LAMBDA e : e.op = op)
TraceAt(op) == {j \in 1..Len(trace) : trace[j].op = op}

\* The concatenation of the lists that the entries of q carry.
RECURSIVE ConcatArgs(_)
ConcatArgs(q) == IF q = <<>> THEN <<>> ELSE Head(q).arg \o ConcatArgs(Tail(q))

\* The pull requests that the entries of q carry, one each.
Args(q) == [i \in 1..Len(q) |-> q[i].arg]

\* report() is in its collection loop, or an exception took it out of it.
Collection == pc \in {"start", "loop", "call", "raised"}

\* The flat list as collected so far.
Flat == IF Collection THEN pulls ELSE collected

\* The call on the handle by which the resolver of a kind begins.
FirstLookup(target) ==
    CASE target = "repo"         -> "get_repo"
      [] target = "organization" -> "get_organization"
      [] target = "user"         -> "get_user"

\* C12: report() invokes one resolver per specification, in the order of
\* the list: the k-th invocation is that of the k-th specification's kind
\* (it begins with that kind's lookup of the name) and carries the caller's
\* callback, which is also what the resolver hands to _from_repos; after
\* the loop there are as many invocations as specifications.  The flat list
\* is the concatenation of the resolvers' results in that order, the calls
\* of add_pull are exactly its elements, each once and in its order, and
\* the summary is what those calls make of a fresh one.
C12_CollectionInOrder ==
    LET R == TraceOf("resolver") IN
    /\ Len(R) <= Len(repos)
    /\ ~Collection => Len(R) = Len(repos)
    /\ \A k \in 1..Len(R) :
          /\ R[k].target = repos[k][1] /\ R[k].name = repos[k][2]
          /\ R[k].cb = repo_callback
    /\ \A j \in TraceAt("resolver") :
          /\ j < Len(trace)
          /\ trace[j + 1].op = FirstLookup(trace[j].target)
          /\ trace[j + 1].name = trace[j].name
    /\ \A j \in TraceAt("_from_repos") :
          /\ trace[j].cb = repo_callback
          /\ \E i \in TraceAt("resolver") :
                /\ i < j /\ \A m \in (i + 1)..(j - 1) : trace[m].op # "resolver"
                /\ trace[j].arg = ResolverRepos(trace[i].target, trace[i].name)
    /\ Len(TraceOf("_from_repos")) <= Len(R)
    /\ Flat = ConcatArgs(TraceOf("return"))
    /\ Args(TraceOf("add_pull")) = Flat
    /\ pr_summary = AddPulls(wrappers, PullSummaryInit, Flat)

\* C12's case: a user and then a repository of that user, with a callback:
\* five pull requests are collected, two of them twice.
C12_Witness ==
    /\ pc = "done" /\ repo_callback = "_normal_callback"
    /\ repos = <<<<"user", "user1">>, <<"repo", "repo1">>>>
    /\ Len(TraceOf("resolver")) = 2 /\ Len(collected) = 5
    /\ Len(TraceOf("add_pull")) = 5

\* The print calls of one kind on sys.stderr, in order, and their positions.
ErrLines(text) == SelectSeq(err, LAMBDA l : l.text = text)
ErrAt(text) == {j \in 1..Len(err) : err[j].text = text}

\* The positions in `trace' of the status lines of one kind.
StatusAt(text) ==
    {j \in TraceAt("stderr") : trace[j].arg = text}

\* The positions in `trace' of the KeyError that a kind without a resolver
\* ends the run with.
KeyErrors == {j \in TraceAt("raise") : trace[j].target \notin TargetNames}

\* C13: with a callback, report() prints one line `Looking up <kind>
\* "<name>"...' per specification it resolves, in their order and each
\* right before that specification's resolver is invoked, and then, once
\* the loop and the sort are over and before the first print on the output
\* stream, the one line `Generating report...'.  Without a callback nothing
\* at all is printed on sys.stderr.
C13_StatusLines ==
    LET L == ErrLines("Looking up")
        R == TraceOf("resolver")
    IN
    IF repo_callback = None
    THEN err = <<>> /\ TraceOf("stderr") = <<>>
    ELSE /\ Len(L) = Len(R) + Cardinality(KeyErrors)
         /\ \A k \in 1..Len(L) :
               L[k].target = repos[k][1] /\ L[k].name = repos[k][2]
         /\ \A j \in TraceAt("resolver") :
               /\ j > 1 /\ (j - 1) \in StatusAt("Looking up")
               /\ trace[j - 1].target = trace[j].target
               /\ trace[j - 1].name = trace[j].name
         /\ Cardinality(StatusAt("Looking up")) = Len(L)
         /\ Len(ErrLines("Generating report...")) <= 1
         /\ Cardinality(StatusAt("Generating report...")) =
               Len(ErrLines("Generating report..."))
         /\ pc \in {"emit", "pull", "trailer", "done"} =>
               /\ Len(ErrLines("Generating report...")) = 1
               /\ Len(L) = Len(repos)
         /\ out # <<>> => Len(ErrLines("Generating report...")) = 1
         /\ \A g \in ErrAt("Generating report...") :
               \A j \in ErrAt("Looking up") : j < g
         /\ \A g \in StatusAt("Generating report...") :
               /\ \A j \in 1..Len(trace) :
                     trace[j].op = "stream" <=> j > g
               /\ \E j \in TraceAt("sort") : j < g

\* C13's case: a verbose run over two specifications that ends with a
\* report: two lookup lines, then `Generating report...', then the output.
C13_Witness ==
    /\ pc = "done" /\ repo_callback = "_verbose_callback"
    /\ Len(repos) = 2 /\ Len(ErrLines("Looking up")) = 2
    /\ Len(ErrLines("Generating report...")) = 1
    /\ Len(OutLines("Pull request")) > 1

\* What report() itself printed on sys.stderr after `Generating report...'.
AfterGenerating ==
    LET g == CHOOSE g \in ErrAt("Generating report...") : TRUE
    IN  SubSeq(err, g + 1, Len(err))

\* C14 (as claimed): when a report with pull requests has been written for
\* a caller with a callback, sys.stderr holds, after `Generating report...',
\* a line `Emitting summary: Open PRs: ...', one line `Emitting pull request
\* <repo>#<number>' per pull request in emission order, a line `Emitting
\* repositories with open pull requests: <count>' and a last line `Report
\* generated in <elapsed> at <start>'.
C14_EmittingLines ==
    (pc = "done" /\ repo_callback # None /\ collected # <<>>) =>
        /\ ErrAt("Generating report...") # {}
        /\ LET e == AfterGenerating
               n == Len(pulls)
           IN  /\ Len(e) = n + 3
               /\ e[1].text = "Emitting summary"
               /\ e[1].x = n
               /\ \A k \in 1..n :
                     /\ e[k + 1].text = "Emitting pull request"
                     /\ e[k + 1].name = BlockNames[k][1]
                     /\ e[k + 1].x = BlockNames[k][2]
               /\ e[n + 2].text = "Emitting repositories with open pull requests"
               /\ e[n + 2].x = Len(RowNames)
               /\ e[n + 3].text = "Report generated"

\* C15: if a resolver raises, whether in its lookup or in a fetch of
\* _from_repos and whether for the first specification or a later one, the
\* exception leaves report(): it is the last thing that happens, the failing
\* specification is the last one resolved, and nothing has been printed on
\* the output stream.
C15_ResolverFailurePropagates ==
    /\ \A j \in TraceAt("raise") :
          /\ j = Len(trace)
          /\ pc = "raised"
          /\ trace[j].target = repos[spec_i + 1][1]
          /\ trace[j].name = repos[spec_i + 1][2]
    /\ (\E j \in 1..Len(events) : events[j].raised) =>
          \/ pc = "call" /\ r_pc = "raised"
          \/ pc = "raised"
    /\ (pc = "raised" \/ r_pc = "raised") =>
          /\ out = <<>> /\ TraceOf("stream") = <<>>
          /\ TraceOf("sort") = <<>>
          /\ Len(TraceOf("resolver")) = spec_i + 1 - Cardinality(KeyErrors)
    /\ pc = "raised" => TraceAt("raise") # {}

\* C15's case: the second specification's fetch fails after the first
\* specification's pull requests were collected.
C15_Witness ==
    /\ pc = "raised" /\ Len(repos) = 2 /\ spec_i = 1
    /\ Len(pulls) > 0 /\ out = <<>>
    /\ events[Len(events)].raised

\* The same for a lookup: the first specification names an unknown user.
C15_WitnessLookup ==
    /\ pc = "raised" /\ Len(repos) = 2 /\ spec_i = 0
    /\ repos[1] = <<"user", "nobody">> /\ events = <<>> /\ out = <<>>

\* The texts of the print calls on the output stream, in order.
OutTexts == [i \in 1..Len(out) |-> out[i].text]

\* n times the text t.
Times(n, t) == [i \in 1..n |-> t]

\* The texts of a report of the pull requests `list': the summary, a block
\* per pull request, the count line, a row per repository, the trailer.
ReportTexts(list) ==
    <<"Open PRs", "Oldest PR", "Youngest PR", "Least recently updated PR",
      "Most recently updated PR">>
    \o Times(Len(list), "Pull request")
    \o <<"Repositories with open pull requests">>
    \o Times(Cardinality({wrappers[list[k]]._repo.full_name :
                              k \in 1..Len(list)}), "Open PRs for")
    \o <<"Report generated">>

\* C18: the phases of report() follow one another: every step of the
\* collection (resolver invocations, their lookups and returns, add_pull)
\* precedes the sort step, which precedes every print on the output stream;
\* and the output of a report with pull requests is, in this order, the
\* summary, one block for each collected pull request in the order of the
\* sorted list, the count line with the breakdown rows, and the trailer.
C18_PhasesInSequence ==
    /\ Cardinality(TraceAt("sort")) <= 1
    /\ out # <<>> => TraceAt("sort") # {}
    /\ \A t \in TraceAt("sort") :
          \A j \in 1..Len(trace) :
              /\ j < t => trace[j].op \notin {"sort", "stream"}
              /\ j > t => /\ trace[j].op \in {"stderr", "stream"}
                          /\ trace[j].op = "stderr" =>
                                trace[j].arg = "Generating report..."
    /\ Len(TraceOf("stream")) = Len(out)
    /\ collected # <<>> =>
          /\ Len(out) <= Len(ReportTexts(pulls))
          /\ OutTexts = SubSeq(ReportTexts(pulls), 1, Len(out))
          /\ pc = "done" => OutTexts = ReportTexts(pulls)
          /\ BlockRefs = SubSeq(pulls, 1, Len(BlockRefs))
          /\ Len(out) >= 5 + Len(pulls) => BlockRefs = pulls
          /\ \A k \in 1..Len(collected) :
                Cardinality({i \in 1..Len(pulls) : pulls[i] = collected[k]}) = 1
          /\ Len(pulls) = Len(collected)

\* C18's case: a finished report of five pull requests of two repositories
\* whose sort changed the collection order.
C18_Witness ==
    /\ pc = "done" /\ Len(collected) = 5 /\ pulls # collected
    /\ Len(out) = 5 + 5 + 1 + 2 + 1
    /\ Len(TraceOf("resolver")) = 2

\* C24: report() reads the clock first of all, before it invokes a resolver
\* or prints anything, and in a report with pull requests once more, after
\* the last line of the breakdown and before the trailer; it reads it at no
\* other time.  The ages of the blocks are computed against the first
\* reading, for each block that of created_at and then that of updated_at,
\* in the order of the blocks, however much time has passed since; and the
\* trailer shows the second reading minus the first, and the first.
C24_ClockReadAtStartAndEnd ==
    LET B == OutLines("Pull request") IN
    /\ pc = "start" <=> nows = <<>>
    /\ Len(nows) <= 2
    /\ Len(nows) = 2 <=> (pc = "done" /\ collected # <<>>)
    /\ nows # <<>> =>
          /\ nows[1].at = 0 /\ nows[1].written = 0
          /\ nows[1].value = start
          /\ \A j \in TraceAt("resolver") : j > nows[1].at
    /\ Len(nows) = 2 =>
          /\ nows[2].written = Len(out) - 1
          /\ nows[2].at = Len(trace) - 1
          /\ out[Len(out) - 1].text = "Open PRs for"
          /\ out[Len(out)] = [text |-> "Report generated",
                              elapsed |-> nows[2].value - nows[1].value,
                              start |-> nows[1].value]
          /\ nows[2].value >= nows[1].value
    /\ Len(ages) = 2 * Len(B)
    /\ \A k \in 1..Len(B) :
          /\ ages[2 * k - 1] = [now |-> nows[1].value, time |-> B[k].created_at,
                                fmt |-> " (age: %s)", result |-> B[k].age]
          /\ ages[2 * k] = [now |-> nows[1].value, time |-> B[k].updated_at,
                            fmt |-> " (%s ago)", result |-> B[k].update]
          /\ B[k].age = FormatAge(nows[1].value, B[k].created_at, " (age: %s)")
          /\ B[k].update = FormatAge(nows[1].value, B[k].updated_at, " (%s ago)")

\* C24's case: a report took one unit of time, and the pull request that
\* was updated at the very time report() started has no age on its update
\* line, although the clock had moved on when the report ended.
C24_Witness ==
    /\ pc = "done" /\ Len(nows) = 2
    /\ nows[2].value = nows[1].value + 1
    /\ out[Len(out)].elapsed = 1
    /\ \E k \in 1..Len(OutLines("Pull request")) :
          /\ OutLines("Pull request")[k].updated_at = nows[1].value
          /\ OutLines("Pull request")[k].update = EmptyString
          /\ OutLines("Pull request")[k].age # EmptyString

\* The invocations of the callback before a fetch (three arguments) and
\* after it (four, the last being the list of wrapped pull requests).
PreCalls == SelectSeq(events, LAMBDA e : e.ev = "cb" /\ e.nargs = 3)
PostCalls == SelectSeq(events, LAMBDA e : e.ev = "cb" /\ e.nargs = 4)

\* The number of pulls of a list whose mergeable is true.
MergeableIn(list) ==
    Cardinality({k \in 1..Len(list) :
                    pr_mergeable[wrappers[list[k]]._pr.id] = "True"})

\* C25: the processor selects no callback for verbosity 0, _normal_callback
\* for 1 and _verbose_callback for 2, and report() runs with the one
\* selected.  With none, nothing is invoked.  With either of the two, each
\* invocation before a fetch prints `Processing repository "<name>"
\* (<idx + 1>/<count>)...'; an invocation after a fetch prints nothing for
\* _normal_callback and, for _verbose_callback, `<k> pulls' and `(<m>
\* mergeable)', k being the length of the list it was given and m the
\* number of its pulls whose mergeable is true.
C25_VerbositySelectsCallback ==
    LET P == ErrLines("Processing repository")
        K == ErrLines("pulls")
        G == ErrLines("mergeable")
    IN
    /\ p_pc \in {"yield", "report", "done"} =>
          args.repo_callback =
              CASE args.verbose = 0 -> None
                [] args.verbose = 1 -> "_normal_callback"
                [] args.verbose = 2 -> "_verbose_callback"
    /\ pc # "idle" => repo_callback = args.repo_callback
    /\ r_pc # "idle" => r_cb = args.repo_callback
    /\ args.verbose = 0 => events = EventsOf("get_pulls") /\ err = <<>>
    /\ args.verbose \in {1, 2} =>
          /\ Len(P) = Len(PreCalls)
          /\ \A k \in 1..Len(P) :
                /\ P[k].name = PreCalls[k].repo.full_name
                /\ P[k].x = PreCalls[k].idx + 1
                /\ P[k].y = PreCalls[k].count
    /\ args.verbose = 1 => K = <<>> /\ G = <<>>
    /\ args.verbose = 2 =>
          /\ Len(K) = Len(PostCalls) /\ Len(G) = Len(PostCalls)
          /\ \A k \in 1..Len(K) :
                /\ K[k].x = Len(PostCalls[k].pulls)
                /\ G[k].x = MergeableIn(PostCalls[k].pulls)
          /\ \A j \in ErrAt("pulls") :
                /\ j > 1 /\ err[j - 1].text = "Processing repository"
                /\ j < Len(err) /\ err[j + 1].text = "mergeable"

\* C25's case: a verbose run over org1 and repo1 has ended: three
\* repositories were announced, and for repo1, the last, the callback
\* counted 2 pulls, 1 of them mergeable; and a normal run over repo1.
C25_Witness ==
    /\ p_pc = "done" /\ args.verbose = 2
    /\ Len(ErrLines("Processing repository")) = 3
    /\ ErrLines("Processing repository")[2].x = 2
    /\ ErrLines("Processing repository")[2].y = 2
    /\ ErrLines("pulls")[3].x = 2 /\ ErrLines("mergeable")[3].x = 1

C25_WitnessNormal ==
    /\ p_pc = "done" /\ args.verbose = 1
    /\ Len(PostCalls) = 1 /\ Len(PostCalls[1].pulls) = 2
    /\ Len(ErrLines("Processing repository")) = 1
    /\ ErrLines("pulls") = <<>>

\* The sum of the mergeable counts of the breakdown rows q.
RECURSIVE SumRows(_)
SumRows(q) == IF q = <<>> THEN 0 ELSE Head(q).mergeable + SumRows(Tail(q))

\* C26 (as claimed): in a finished report with pull requests the mergeable
\* count of the `Open PRs' line, the number of blocks that read `Mergeable:
\* yes' and the sum of the mergeable counts of the breakdown rows are one
\* number, whatever the records report and when.
C26_MergeableRenderingsAgree ==
    (pc = "done" /\ collected # <<>>) =>
        LET yes == Cardinality({k \in 1..Len(OutLines("Pull request")) :
                        OutLines("Pull request")[k].mergeable = "yes"})
        IN  /\ OutLines("Open PRs")[1].mergeable = yes
            /\ yes = SumRows(OutLines("Open PRs for"))

\* C27 (as claimed): once report() has written to the output stream, no
\* step reads the mergeable value of a record.
C27_ReadsBeforeFirstWrite ==
    [][out # <<>> => pr_reads' = pr_reads]_vars

\* The pull request an extreme line of the summary names and the time it
\* shows are those of block b.
NamesBlock(line, b, time) ==
    /\ line.name = b.name /\ line.number = b.number /\ line.time = time

\* C28: in a report sorted by `created' the pull request of the `Oldest PR'
\* line is the one of the first per-pull block, and in a report sorted by
\* `updated' the pull request of the `Least recently updated PR' line is;
\* they are the same wrapper, not only the same name and number, also when
\* several pull requests share the least time.
C28_ExtremesLeadTheBlocks ==
    LET B == OutLines("Pull request") IN
    B # <<>> =>
        /\ sort_by = "created" =>
              /\ pr_summary.oldest = B[1].ref
              /\ NamesBlock(OutLines("Oldest PR")[1], B[1], B[1].created_at)
        /\ sort_by = "updated" =>
              /\ pr_summary.least_recent = B[1].ref
              /\ NamesBlock(OutLines("Least recently updated PR")[1], B[1],
                            B[1].updated_at)

\* C28's case: a report sorted by `created' whose first two blocks share
\* the least creation time, the sort having moved them to the front.
C28_Witness ==
    /\ pc = "done" /\ sort_by = "created" /\ Len(BlockRefs) = 3
    /\ Created(BlockRefs[1]) = Created(BlockRefs[2])
    /\ Created(BlockRefs[2]) < Created(BlockRefs[3])
    /\ BlockRefs # collected
    /\ pr_summary.oldest = BlockRefs[1]

\* The same for `updated'.
C28_WitnessUpdated ==
    /\ pc = "done" /\ sort_by = "updated" /\ Len(BlockRefs) = 3
    /\ Updated(BlockRefs[1]) = Updated(BlockRefs[2])
    /\ BlockRefs # collected
    /\ pr_summary.least_recent = BlockRefs[1]

\* The sum of the totals of the breakdown rows q, and the sum of the
\* lengths of the lists that the resolvers' returns q carry.
RECURSIVE SumTotals(_)
SumTotals(q) == IF q = <<>> THEN 0 ELSE Head(q).pulls + SumTotals(Tail(q))
RECURSIVE SumLens(_)
SumLens(q) == IF q = <<>> THEN 0 ELSE Len(Head(q).arg) + SumLens(Tail(q))

\* C29: in a finished report with pull requests the total of the `Open PRs'
\* line is the number of per-pull blocks, the sum of the rows' totals, and
\* the sum over the specifications of the number of pull requests each
\* one's resolver returned, which is the number of records the
\* repositories list, counted once per occurrence of a repository; and the
\* breakdown has one row per repository name.
C29_Conservation ==
    (pc = "done" /\ collected # <<>>) =>
        LET total == OutLines("Open PRs")[1].total IN
        /\ total = Len(OutLines("Pull request"))
        /\ total = SumTotals(OutLines("Open PRs for"))
        /\ Len(TraceOf("return")) = Len(repos)
        /\ total = SumLens(TraceOf("return"))
        /\ total = Len(Wrapped(AllRepos(repos)))
        /\ \A i, j \in 1..Len(RowNames) : i # j => RowNames[i] # RowNames[j]

\* C29's case: user1, who owns repo2 and repo1, and then repo1 again: five
\* pull requests are reported, those of repo1 twice, in two rows.
C29_Witness ==
    /\ pc = "done"
    /\ repos = <<<<"user", "user1">>, <<"repo", "repo1">>>>
    /\ OutLines("Open PRs")[1].total = 5
    /\ Len(OutLines("Pull request")) = 5
    /\ RowCounts = <<<<"repo1", 4>>, <<"repo2", 1>>>>

\* The first specification whose kind is no key of targets, if there is one.
FirstUnknown ==
    {k \in 1..Len(repos) :
        /\ repos[k][1] \notin TargetNames
        /\ \A j \in 1..(k - 1) : repos[j][1] \in TargetNames}

\* C30: if the k-th specification is the first of a kind that is none of
\* repo, user and organization, report() never gets past it: no resolver is
\* invoked for it or for a later one, the sort is not reached and nothing is
\* written to the output stream.  Unless an earlier specification failed,
\* the run ends at the k-th with the exception of the lookup in targets:
\* then the k - 1 earlier resolvers have all returned, and with a callback
\* the last line on sys.stderr is the `Looking up' line of the k-th.
C30_UnknownKindFails ==
    \A k \in FirstUnknown :
        /\ spec_i <= k - 1
        /\ pc \in {"start", "loop", "call", "raised"}
        /\ pc = "call" => spec_i < k - 1
        /\ Len(TraceOf("resolver")) <= k - 1
        /\ out = <<>> /\ TraceOf("sort") = <<>>
        /\ KeyErrors # {} <=> (pc = "raised" /\ spec_i = k - 1)
        /\ KeyErrors # {} =>
              /\ KeyErrors = {Len(trace)}
              /\ trace[Len(trace)].target = repos[k][1]
              /\ trace[Len(trace)].name = repos[k][2]
              /\ Len(TraceOf("resolver")) = k - 1
              /\ Len(TraceOf("return")) = k - 1
              /\ pulls = ConcatArgs(TraceOf("return"))
              /\ IF repo_callback = None
                 THEN err = <<>>
                 ELSE /\ Len(ErrLines("Looking up")) = k
                      /\ err[Len(err)] = ErrLine("Looking up", repos[k][1],
                                                 repos[k][2], 0, 0, "\n")
                      /\ trace[Len(trace) - 1].op = "stderr"

\* C30's case: repo1 and then a specification of the kind `team', with a
\* callback: the two pull requests of repo1 were collected, the line for
\* the team was printed, and report() ended with the exception.
C30_Witness ==
    /\ pc = "raised"
    /\ repos = <<<<"repo", "repo1">>, <<"team", "team1">>>>
    /\ repo_callback = "_normal_callback"
    /\ Len(pulls) = 2 /\ out = <<>>
    /\ err[Len(err)].text = "Looking up" /\ err[Len(err)].target = "team"

-----------------------------------------------------------------------------
(* The claim about the entry points (SpecEntry).                           *)

\* The calls on the handle that the entry point of a kind makes when the
\* name is known, in order.
ExpectedLookups(target) ==
    CASE target = "repo"         -> <<"get_repo">>
      [] target = "organization" -> <<"get_organization", "org.get_repos">>
      [] target = "user"         -> <<"get_user", "user.get_repos">>
      [] target = "all"          -> <<"gh.get_repos">>

\* The repositories the entry point of a kind resolves over.
ExpectedRepos(target, name) ==
    CASE target = "repo"         -> <<[full_name |-> name]>>
      [] target = "organization" -> <<[full_name |-> "repo3"], [full_name |-> "repo2"]>>
      [] target = "user"         -> <<[full_name |-> "repo2"], [full_name |-> "repo1"]>>
      [] target = "all"          ->
            <<[full_name |-> "repo1"], [full_name |-> "repo2"],
              [full_name |-> "repo3"]>>

\* The steps of `trace' that are calls on the handle.
LookupOps ==
    {"get_repo", "get_organization", "org.get_repos", "get_user",
     "user.get_repos", "gh.get_repos"}
LookupsMade == SelectSeq(trace, LAMBDA e : e.op \in LookupOps)

\* C19: an entry point makes the lookups of its kind, each once and with
\* the name it was given, and then calls _from_repos once, with the
\* repositories found (for from_repo the one repository, so that callbacks
\* see index 0 of 1) and with its own callback; what _from_repos returns is
\* what the entry point returns.  If the first lookup raises, nothing else
\* is called.
C19_EntryPointsDelegate ==
    trace # <<>> =>
        LET call == trace[1]
            L    == LookupsMade
            D    == TraceOf("_from_repos")
            want == ExpectedLookups(call.target)
        IN
        /\ call.op = "resolver"
        /\ \A k \in 1..Len(L) : L[k].name = call.name
        /\ IF TraceAt("raise") = {}
           THEN /\ [k \in 1..Len(L) |-> L[k].op] = want
                /\ \A k \in 1..Len(L) : trace[k + 1] = L[k]
                /\ Len(D) = 1 /\ trace[Len(L) + 2].op = "_from_repos"
                /\ D[1].cb = call.cb
                /\ D[1].arg = ExpectedRepos(call.target, call.name)
                /\ r_cb = call.cb /\ r_repos = D[1].arg
                /\ call.target = "repo" =>
                      \A j \in 1..Len(events) :
                          events[j].idx = 0 /\ events[j].count = 1
                /\ \A j \in TraceAt("return") :
                      /\ j = Len(trace) /\ j = Len(L) + 3
                      /\ trace[j].arg = r_pulls
                      /\ Deref(r_pulls)
                            = Wrapped(ExpectedRepos(call.target, call.name))
           ELSE /\ Len(L) = 1 /\ L[1].op = want[1]
                /\ D = <<>> /\ events = <<>> /\ Len(trace) = 3

\* C19's case: from_user with a callback has returned the three pull
\* requests of the user's two repositories, the callback having been
\* invoked four times.
C19_Witness ==
    /\ Len(trace) = 5 /\ trace[1].target = "user" /\ trace[1].cb = "mock"
    /\ trace[5].op = "return" /\ Len(trace[5].arg) = 3
    /\ Len(EventsOf("cb")) = 4

=============================================================================
